---- MODULE Spec2Model ----
(***************************************************************************)
(* Model of the notification and storage core of the ACME oneM2M CSE.      *)
(*                                                                         *)
(*   SpecCrs   : the <crs> time-window workers of NotificationManager.py   *)
(*   SpecSub   : subscription add / update / remove and the verification   *)
(*               handshake of NotificationManager.py                       *)
(*   SpecNtf   : notifications, expiration counter and batch               *)
(*               notifications of NotificationManager.py                   *)
(*   SpecStore : the locked tables of Storage.py (Storage, TinyDBBinding)  *)
(*   SpecCrsPeriodic : SpecCrs with periodic windows only                  *)
(*   SpecSec   : the access checks of SecurityManager.py                   *)
(*   SpecNmc, SpecNmcOfParent, SpecSnd : checkSubscriptions and the        *)
(*               sending of one notification, as calls of one thread       *)
(*   SpecEvt   : events and their handlers (EventManager.py)               *)
(*   SpecDoc   : resource documents in the database, expiration            *)
(*   SpecAnn   : announcements (AnnouncementManager.py)                    *)
(*   SpecTs, SpecVr : <ts> instances and its virtual children (TS.py)      *)
(*   SpecReq   : <req> resources (REQ.py)                                  *)
(*   SpecApp   : the app-data table of Storage.py                          *)
(*                                                                         *)
(* Request handlers and background workers are threads; a thread's steps   *)
(* are cut where the source calls into the Store, sends a request or       *)
(* enters / leaves a `with lock:` block.                                   *)
(***************************************************************************)
EXTENDS Integers, Sequences, FiniteSets, TLC

\* ------------------------------------------------------------------ bounds
\* number of constituent subscriptions of the <crs> (crs._countSubscriptions())
NSubs == 2
\* longest nu list of a <sub> that is tried
MaxNu == 2
\* largest expiration counter a <sub> is created with
MaxExc == 2
\* number of batch notifications stored in one run (the time stamps 1..MaxStamp)
MaxStamp == 4
\* bn.num of the <sub> when it is set
BnNum == 2
\* number of Storage calls made in one run
MaxCalls == 2
\* longest pv / pvs rule list of an <ACP> that is tried
MaxRules == 2
\* longest acpi list of a resource that is tried
MaxAcpi == 2
\* most subscriptions of one resource that an event is checked against
MaxSubs == 2
\* most handlers attached to one event
MaxHandlers == 2

VARIABLES
    \* ---- <crs> windows (NotificationManager.py, 349-508)
    crsTwt,        \* crs.twt: "SLIDING" or "PERIODIC"
    crsPool,       \* BackgroundWorkerPool: the window workers of the <crs>, a list
    crsThread,     \* per request thread: position in receivedCrossResourceSubscriptionNotification
    crsClosed,     \* the window evaluated last: what it received and what it fired
    \* ---- subscription CRUD and verification (NotificationManager.py, 61-121, 551-616)
    subTab,        \* the subscription table: the record of the <sub>, or NoSub
    crud,          \* the add / update / remove operation in progress and its result
    verifSent,     \* the verification requests sent by the operation, in order
    deletion,      \* the deletion notifications of the last removeSubscription
    \* ---- notifications, expiration counter, batches (NotificationManager.py, 645-864)
    ntfCfg,        \* the <sub> as created: exc, bn, ln, nus
    ntfRes,        \* the <sub> resource in the resource table: exists, exc
    ntfRec,        \* the record of the <sub> in the subscription table: exists, exc
    hnd,           \* per handler thread: position in _handleSubscriptionNotification
    pending,       \* batch notification table: per nu the time stamps of the stored requests
    stamp,         \* the time stamp the next stored batch notification gets
    guardPool,     \* BackgroundWorkerPool: per nu the number of batch guard actors
    agg,           \* the thread inside `with self.lockBatchNotification`, or NoAgg
    ntfLog,        \* successful notifications, delivered / lost batches, the last payload
    \* ---- Storage / TinyDBBinding (Storage.py)
    tab,           \* the five TinyDB tables, each a list of documents
    lock,          \* the five table locks: the thread holding it, or "free"
    cl,            \* per client thread: the Storage call in progress and its position
    purge,         \* the thread running purgeDB: the table being truncated
    view,          \* what the last read made during a truncate() got and what was stored
    calls,         \* number of Storage calls started
    overlap,       \* TRUE once two Storage calls ran at the same time
    \* ---- SecurityManager (SecurityManager.py)
    secCall,       \* the last call into the SecurityManager: arguments and outcome
    \* ---- NotificationManager: checkSubscriptions, checkPerformBlockingUpdate
    nmCall,        \* the last call: arguments and outcome
    \* ---- EventManager (EventManager.py)
    evRunning,     \* EventManager._running
    evt,           \* one event of the manager: its Event object
    evRun,         \* the run of _callThread for the event that was raised
    evLog,         \* what the last raise of the event did
    \* ---- Storage: the documents of the Resource table (Storage.py)
    docTab,        \* the Resource and the Identifier table, documents with their attributes
    docLog,        \* the last Storage call of the one caller: arguments, table before, outcome
    \* ---- AnnouncementManager (AnnouncementManager.py)
    annRes,        \* the CSEBase and an announceable resource: at and __announcedTo__
    annCsrs,       \* per peer CSE: its local <csr> (with or without poa) or none
    annLog,        \* the last operation of the AnnouncementManager: inputs, resource before, requests sent
    \* ---- timeSeries and its <oldest> child (TS.py, TS_OL.py)
    tsRes,         \* a <ts> resource: its limits, counters and <tsi> children in storage order
    tsLog,         \* the last request or hook: arguments, children before, outcome
    \* ---- <request> resources (REQ.py)
    reqRes,        \* the <request> resources in the Resource table: exists, rs
    reqLog,        \* the last operation on a <request>: arguments, table before, outcome
    \* ---- timeSeries and its virtual children in the Resource table (TS.py, Storage.py)
    vrTab,         \* the Resource table: the documents of the <ts>, their children and what activate adds
    vrLog,         \* the last request for a <ts> or a <tsi>: arguments, table before, outcome
    \* ---- NotificationManager: _sendNotification over the nus of a record
    sndCall,       \* the last call of _handleSubscriptionNotification by one thread: arguments and outcome
    \* ---- app data: Storage.py 321-330, 596-616
    appTab,        \* tabAppData: the documents of the app-data table, in the order stored
    appLog         \* the last call of the app-data interface and what it returned

crsVars == <<crsTwt, crsPool, crsThread, crsClosed>>
subVars == <<subTab, crud, verifSent, deletion>>
ntfVars == <<ntfCfg, ntfRes, ntfRec, hnd, pending, stamp, guardPool, agg, ntfLog>>

storeVars == <<tab, lock, cl, purge, view, calls, overlap>>

secVars == <<secCall>>

nmcVars == <<nmCall>>

evtVars == <<evRunning, evt, evRun, evLog>>

docVars == <<docTab, docLog>>

annVars == <<annRes, annCsrs, annLog>>

tsVars == <<tsRes, tsLog>>

reqVars == <<reqRes, reqLog>>

vrVars == <<vrTab, vrLog>>

sndVars == <<sndCall>>

appVars == <<appTab, appLog>>

vars == <<crsVars, subVars, ntfVars, storeVars, secVars, nmcVars, evtVars, docVars, annVars, tsVars, reqVars, vrVars, sndVars, appVars>>

\* what the actions of one part leave alone
notCrs == <<subVars, ntfVars, storeVars, secVars, nmcVars, evtVars, docVars, annVars, tsVars, reqVars, vrVars, sndVars, appVars>>
notSub == <<crsVars, ntfVars, storeVars, secVars, nmcVars, evtVars, docVars, annVars, tsVars, reqVars, vrVars, sndVars, appVars>>
notNtf == <<crsVars, subVars, storeVars, secVars, nmcVars, evtVars, docVars, annVars, tsVars, reqVars, vrVars, sndVars, appVars>>
notStore == <<crsVars, subVars, ntfVars, secVars, nmcVars, evtVars, docVars, annVars, tsVars, reqVars, vrVars, sndVars, appVars>>
notSec == <<crsVars, subVars, ntfVars, storeVars, nmcVars, evtVars, docVars, annVars, tsVars, reqVars, vrVars, sndVars, appVars>>
notNmc == <<crsVars, subVars, ntfVars, storeVars, secVars, evtVars, docVars, annVars, tsVars, reqVars, vrVars, sndVars, appVars>>
notEvt == <<crsVars, subVars, ntfVars, storeVars, secVars, nmcVars, docVars, annVars, tsVars, reqVars, vrVars, sndVars, appVars>>
notDoc == <<crsVars, subVars, ntfVars, storeVars, secVars, nmcVars, evtVars, annVars, tsVars, reqVars, vrVars, sndVars, appVars>>
notAnn == <<crsVars, subVars, ntfVars, storeVars, secVars, nmcVars, evtVars, docVars, tsVars, reqVars, vrVars, sndVars, appVars>>
notTs == <<crsVars, subVars, ntfVars, storeVars, secVars, nmcVars, evtVars, docVars, annVars, reqVars, vrVars, sndVars, appVars>>
notReq == <<crsVars, subVars, ntfVars, storeVars, secVars, nmcVars, evtVars, docVars, annVars, tsVars, vrVars, sndVars, appVars>>
notVr == <<crsVars, subVars, ntfVars, storeVars, secVars, nmcVars, evtVars, docVars, annVars, tsVars, reqVars, sndVars, appVars>>
notSnd == <<crsVars, subVars, ntfVars, storeVars, secVars, nmcVars, evtVars, docVars, annVars, tsVars, reqVars, vrVars, appVars>>
notApp == <<crsVars, subVars, ntfVars, storeVars, secVars, nmcVars, evtVars, docVars, annVars, tsVars, reqVars, vrVars, sndVars>>

\* Python's None
None == "None"

\* ------------------------------------------------------------------ helpers
Range(s) == {s[i] : i \in 1..Len(s)}

NoDuplicates(s) == \A i, j \in 1..Len(s) : s[i] = s[j] => i = j

RemoveAt(s, i) == SubSeq(s, 1, i - 1) \o SubSeq(s, i + 1, Len(s))

\* ==================================================================
\*  Cross-resource subscriptions
\* ==================================================================
Surs == 1..NSubs
\* two request threads deliver notifications to the <crs> concurrently
ReqThreads == {1, 2}
WorkerIds == 1..(2 * Cardinality(ReqThreads))
TimeWindowTypes == {"SLIDING", "PERIODIC"}
NoWindow == [closed |-> FALSE]
IdleThread == [pc |-> "idle", sur |-> 0, worker |-> 0]

\* subCount as handed to the window monitors: crs._countSubscriptions()
subCount == NSubs

PoolIds == {crsPool[i].id : i \in 1..Len(crsPool)}

FreshWorkerId ==
    CHOOSE id \in WorkerIds :
        /\ id \notin PoolIds
        /\ \A t \in ReqThreads : crsThread[t].worker # id
        /\ \A other \in WorkerIds :
              (other \notin PoolIds /\ \A t \in ReqThreads : crsThread[t].worker # other)
                  => id <= other

\* BackgroundWorkerPool.newWorker / newActor: a worker object carrying `data`.
\* recv is the set of distinct sur delivered to the worker in its current window.
NewWorker(id, data) == [id |-> id, data |-> data, pc |-> "waiting", recv |-> Range(data)]

\* index in the pool of the worker object `id`, 0 when it left the pool
PoolIndex(id) ==
    IF id \in PoolIds THEN CHOOSE i \in 1..Len(crsPool) : crsPool[i].id = id ELSE 0

InitCrs ==
    /\ crsTwt \in TimeWindowTypes
    \* a periodic <crs> starts its worker when it is created, a sliding one
    \* with the first sur
    /\ crsPool = IF crsTwt = "PERIODIC" THEN <<NewWorker(1, <<>>)>> ELSE <<>>
    /\ crsThread = [t \in ReqThreads |-> IdleThread]
    /\ crsClosed = NoWindow

\* startCRSPeriodicWindow: newWorker(tws, _crsPeriodicWindowMonitor, data = [])
startCRSPeriodicWindow ==
    /\ crsTwt = "PERIODIC"
    /\ crsPool = <<>>
    /\ crsPool' = <<NewWorker(FreshWorkerId, <<>>)>>
    /\ UNCHANGED <<crsTwt, crsThread, crsClosed, notCrs>>

\* restart: stopWorkers('crsPeriodic_*'), stopWorkers('crsSliding_*')
restart ==
    /\ crsPool # <<>>
    /\ crsPool' = <<>>
    /\ UNCHANGED <<crsTwt, crsThread, crsClosed, notCrs>>

\* receivedCrossResourceSubscriptionNotification, lines 494-498 / 503-504:
\* workers := BackgroundWorkerPool.findWorkers(name); workers[0] is kept
receivedCrossResourceSubscriptionNotification(t, sur) ==
    /\ crsThread[t].pc = "idle"
    /\ crsThread' = [crsThread EXCEPT ![t] =
          IF crsPool # <<>>
          THEN [pc |-> "test", sur |-> sur, worker |-> crsPool[1].id]
          ELSE IF crsTwt = "SLIDING"
               THEN [pc |-> "start", sur |-> sur, worker |-> 0]
               ELSE IdleThread]          \* periodic: "No else"
    /\ UNCHANGED <<crsTwt, crsPool, crsClosed, notCrs>>

\* lines 499 / 505: if sur not in workers[0].data
crsMembershipTest(t) ==
    /\ crsThread[t].pc = "test"
    /\ LET i == PoolIndex(crsThread[t].worker)
           present == i # 0 /\ crsThread[t].sur \in Range(crsPool[i].data)
       IN  /\ crsThread' = [crsThread EXCEPT ![t] =
                 IF present THEN IdleThread ELSE [@ EXCEPT !.pc = "append"]]
           /\ crsPool' = IF present
                         THEN [crsPool EXCEPT ![i].recv = @ \cup {crsThread[t].sur}]
                         ELSE crsPool
    /\ UNCHANGED <<crsTwt, crsClosed, notCrs>>

\* lines 500 / 506: workers[0].data.append(sur); an append to a worker object
\* that has left the pool changes nothing any monitor will read
crsAppend(t) ==
    /\ crsThread[t].pc = "append"
    /\ LET i == PoolIndex(crsThread[t].worker)
       IN  crsPool' = IF i = 0 THEN crsPool
                      ELSE [crsPool EXCEPT ![i].data = Append(@, crsThread[t].sur),
                                           ![i].recv = @ \cup {crsThread[t].sur}]
    /\ crsThread' = [crsThread EXCEPT ![t] = IdleThread]
    /\ UNCHANGED <<crsTwt, crsClosed, notCrs>>

\* line 502 -> startCRSSlidingWindow: newActor(_crsSlidingWindowMonitor, tws, data = [sur])
startCRSSlidingWindow(t) ==
    /\ crsThread[t].pc = "start"
    /\ crsPool' = Append(crsPool, NewWorker(FreshWorkerId, <<crsThread[t].sur>>))
    /\ crsThread' = [crsThread EXCEPT ![t] = IdleThread]
    /\ UNCHANGED <<crsTwt, crsClosed, notCrs>>

\* a length test that is also met by a longer list
crsFires_AtLeast(data) == Len(data) >= subCount

\* does the window monitor send the <crs> notification for this data ?  line 401
crsFires(data) == Len(data) = subCount

\* _crsPeriodicWindowMonitor / _crsSlidingWindowMonitor -> _crsCheckForNotification,
\* lines 400-413: the length test, the retrieval of the <crs> (retrievable or not)
\* and sendNotificationWithDict(dct, nu, background = True)
crsCheckForNotification(i, retrievable) ==
    /\ i \in 1..Len(crsPool)
    /\ crsPool[i].pc = "waiting"
    /\ crsClosed' = [closed |-> TRUE,
                     twt |-> crsTwt,
                     worker |-> crsPool[i].id,
                     len |-> Len(crsPool[i].data),
                     recv |-> crsPool[i].recv,
                     retrievable |-> retrievable,
                     fired |-> IF crsFires(crsPool[i].data) /\ retrievable THEN 1 ELSE 0,
                     cleared |-> FALSE,
                     after |-> crsPool[i].data,
                     dropped |-> <<>>]
    /\ crsPool' = [crsPool EXCEPT ![i].pc = "clear"]
    /\ UNCHANGED <<crsTwt, crsThread, notCrs>>

\* lines 405 / 414: data.clear(); the periodic worker waits for its next tick,
\* the sliding actor has run once and leaves the pool
crsClearWindow(i) ==
    /\ i \in 1..Len(crsPool)
    /\ crsPool[i].pc = "clear"
    /\ crsPool' = IF crsTwt = "PERIODIC"
                  THEN [crsPool EXCEPT ![i] = NewWorker(@.id, <<>>)]
                  ELSE RemoveAt(crsPool, i)
    \* the window evaluated last is the one of this worker: what its list holds now
    /\ crsClosed' = IF crsClosed.closed /\ crsClosed.worker = crsPool[i].id
                    THEN [crsClosed EXCEPT !.cleared = TRUE,
                                           !.after = NewWorker(crsPool[i].id, <<>>).data,
                                           !.dropped = SubSeq(crsPool[i].data, crsClosed.len + 1,
                                                              Len(crsPool[i].data))]
                    ELSE crsClosed
    /\ UNCHANGED <<crsTwt, crsThread, notCrs>>

NextCrs ==
    \/ startCRSPeriodicWindow
    \/ restart
    \/ \E t \in ReqThreads, sur \in Surs : receivedCrossResourceSubscriptionNotification(t, sur)
    \/ \E t \in ReqThreads : crsMembershipTest(t)
    \/ \E t \in ReqThreads : crsAppend(t)
    \/ \E t \in ReqThreads : startCRSSlidingWindow(t)
    \/ \E i \in ReqThreads, retrievable \in BOOLEAN : crsCheckForNotification(i, retrievable)
    \/ \E i \in ReqThreads : crsClearWindow(i)

\* ==================================================================
\*  Subscriptions: add, update, remove and the verification handshake
\* ==================================================================
Uris == {"u1", "u2", "Cae", "/id-in/Cae"}
Originators == {"Cae", "Cother"}
NoSub == [exists |-> FALSE]
NuLists == UNION {[1..n -> Uris] : n \in 0..MaxNu}
\* su and acrs of the <sub> that is removed
DeletionUris == {"su1", "a1", "a2"}
AcrsLists == {<<>>, <<"a1">>, <<"a1", "a2">>}
NoDeletion == [done |-> FALSE, su |-> None, acrs |-> <<>>, failing |-> {},
               notified |-> <<>>]

IdleCrud == [pc |-> "idle", op |-> "none", nu |-> <<>>, previousNus |-> <<>>,
             originator |-> "none", i |-> 0, res |-> "none", before |-> NoSub,
             failed |-> FALSE]

\* Utils.compareIDs: the same identifier in CSE-relative and SP-relative form
CseRelative(id) == IF id = "/id-in/Cae" THEN "Cae" ELSE id

compareIDs(a, b) == CseRelative(a) = CseRelative(b)

\* line 573: nu == originator or Utils.compareIDs(nu, originator)
IsOriginator(nu, originator) == nu = originator \/ compareIDs(nu, originator)

NeedsVerification_NoOriginatorSkip(nu, previousNus, originator) ==
    previousNus = <<>> \/ nu \notin Range(previousNus)

\* lines 571-575: a verification request goes to the entries of nu that are not in
\* previousNus (all of them when previousNus is None or empty) and are not the originator
NeedsVerification(nu, previousNus, originator) ==
    /\ previousNus = <<>> \/ nu \notin Range(previousNus)
    /\ ~IsOriginator(nu, originator)

\* the record upsertSubscription writes for the <sub>
SubRecord(nu) == [exists |-> TRUE, nus |-> nu]

InitSub ==
    /\ subTab = NoSub
    /\ crud = IdleCrud
    /\ verifSent = <<>>
    /\ deletion = NoDeletion

StartCrud(op, nu, previousNus, originator) ==
    /\ crud.pc = "idle"
    /\ crud' = [pc |-> "verify", op |-> op, nu |-> nu, previousNus |-> previousNus,
                originator |-> originator, i |-> 1, res |-> "none", before |-> subTab,
                failed |-> FALSE]
    /\ verifSent' = <<>>
    /\ deletion' = NoDeletion
    /\ UNCHANGED <<subTab, notSub>>

\* addSubscription, line 74: _verifyNusInSubscription(ri, nu, originator = originator)
addSubscription(nu, originator) ==
    /\ ~subTab.exists
    /\ StartCrud("add", nu, <<>>, originator)

\* updateSubscription, line 119: _verifyNusInSubscription(ri, nu, previousNus, originator)
updateSubscription(nu, originator) ==
    /\ subTab.exists
    /\ StartCrud("update", nu, subTab.nus, originator)

\* _verifyNusInSubscription, lines 568-581, one iteration of `for nu in nus`;
\* ok is the outcome of _sendVerificationRequest (request sent and answered OK)
verifyNusInSubscription(ok) ==
    /\ crud.pc = "verify"
    /\ LET nu == crud.nu[crud.i]
           last == crud.i >= Len(crud.nu)
       IN  IF crud.i > Len(crud.nu)
           THEN \* nus is empty: nothing to verify
                /\ ok
                /\ crud' = [crud EXCEPT !.pc = "store"]
                /\ UNCHANGED verifSent
           ELSE IF ~NeedsVerification(nu, crud.previousNus, crud.originator)
           THEN /\ ok
                /\ crud' = [crud EXCEPT !.i = @ + 1, !.pc = IF last THEN "store" ELSE "verify"]
                /\ UNCHANGED verifSent
           ELSE /\ verifSent' = Append(verifSent, nu)
                /\ crud' = IF ok
                           THEN [crud EXCEPT !.i = @ + 1,
                                             !.pc = IF last THEN "store" ELSE "verify"]
                           ELSE [crud EXCEPT !.pc = "idle", !.failed = TRUE,
                                             !.res = "SUBSCRIPTION_VERIFICATION_INITIATION_FAILED"]
    /\ UNCHANGED <<subTab, deletion, notSub>>

\* lines 76 / 121: CSE.storage.addSubscription / updateSubscription, an upsert of
\* the record; stored says whether the Store reported success
storeSubscription(stored) ==
    /\ crud.pc = "store"
    /\ subTab' = IF stored THEN SubRecord(crud.nu) ELSE subTab
    /\ crud' = [crud EXCEPT !.pc = "idle",
                            !.res = IF stored THEN "OK" ELSE "INTERNAL_SERVER_ERROR"]
    /\ UNCHANGED <<verifSent, deletion, notSub>>

\* _sendNotification, lines 725-731: the URIs the sender is called for; the loop over
\* a list returns at the first URI whose request fails
\* a loop that calls the sender for every URI, whatever the sender returned
sendNotificationTo_KeepsGoing(uris, i, failing) == uris

RECURSIVE sendNotificationTo(_, _, _)
sendNotificationTo(uris, i, failing) ==
    IF i > Len(uris) THEN <<>>
    ELSE IF uris[i] \in failing THEN <<uris[i]>>
    ELSE <<uris[i]>> \o sendNotificationTo(uris, i + 1, failing)

\* removeSubscription, lines 79-104: the deletion notification to su (line 96), the
\* deletion notifications to acrs (lines 100-101), CSE.storage.removeSubscription
\* (line 104). failing holds the URIs whose sendNotifyRequest fails. The batch
\* notifications that line 93 flushes are those of flushBatchNotifications.
removeSubscription(su, acrs, failing) ==
    /\ crud.pc = "idle"
    /\ subTab.exists
    /\ deletion' = [done |-> TRUE, su |-> su, acrs |-> acrs, failing |-> failing,
                    notified |-> (IF su # None THEN <<su>> ELSE <<>>)
                                    \o sendNotificationTo(acrs, 1, failing)]
    /\ subTab' = NoSub
    /\ crud' = IdleCrud
    /\ verifSent' = <<>>
    /\ UNCHANGED notSub

NextSub ==
    \/ \E nu \in NuLists, o \in Originators : addSubscription(nu, o)
    \/ \E nu \in NuLists, o \in Originators : updateSubscription(nu, o)
    \/ \E ok \in BOOLEAN : verifyNusInSubscription(ok)
    \/ \E stored \in BOOLEAN : storeSubscription(stored)
    \/ \E su \in {None, "su1"}, acrs \in AcrsLists, failing \in SUBSET DeletionUris :
            removeSubscription(su, acrs, failing)

\* ==================================================================
\*  Notifications, expiration counter, batch notifications
\* ==================================================================
\* two threads (requests, workers) raise events for the parent of the <sub>
Handlers == {1, 2}
NtfNus == {"u1", "u2"}
NoBn == [on |-> FALSE, num |-> 0]
\* bn with num unset (0) leaves the sending to the bn.dur guard
BatchParams == {NoBn, [on |-> TRUE, num |-> 0], [on |-> TRUE, num |-> BnNum]}
Gone == [exists |-> FALSE, exc |-> 0]
NoAgg == [held |-> FALSE]
NoPayload == [sent |-> FALSE]
IdleHandler == [pc |-> "idle", i |-> 0, exc |-> 0, ret |-> "none"]
\* what removeSubscription left behind when it returned
NotRemoved == [done |-> FALSE]

\* sorted(..., key = lambda x: x['tstamp']), line 798
sortedByTstamp(S) ==
    CHOOSE q \in [1..Cardinality(S) -> S] :
        /\ Range(q) = S
        /\ \A a, b \in 1..Cardinality(S) : a < b => q[a] < q[b]

\* lines 805-806: notifications[-1:] when ln
aggregated(all, ln) == IF ln THEN <<all[Len(all)]>> ELSE all

\* line 853: the guard actor is started with ri and nu only, ln keeps its default
guardLn == FALSE

\* line 696: `result and (exc := sub['exc'])`, then exc -= 1 and `exc < 1`, lines 699-701
decrementedExc(exc) == exc - 1

expired(exc) == exc < 1

InitNtf ==
    /\ ntfCfg \in [exc0 : 0..MaxExc, bn : BatchParams, ln : BOOLEAN,
                   nus : {<<"u1">>, <<"u1", "u2">>}]
    /\ ntfRes = [exists |-> TRUE, exc |-> ntfCfg.exc0]
    /\ ntfRec = [exists |-> TRUE, exc |-> ntfCfg.exc0]
    /\ hnd = [h \in Handlers |-> IdleHandler]
    /\ pending = [nu \in NtfNus |-> {}]
    /\ stamp = 1
    /\ guardPool = [nu \in NtfNus |-> 0]
    /\ agg = NoAgg
    /\ ntfLog = [k |-> 0, delivered |-> {}, lost |-> {}, overtaken |-> {},
                 resent |-> FALSE, last |-> NoPayload, left |-> NotRemoved]

NuOf(h) == ntfCfg.nus[hnd[h].i]

\* the sender returned True for nus[i]: _sendNotification goes on with the next uri,
\* lines 729-732; after the last one result is True and the expiration is handled
SenderDone(r) ==
    IF r.i < Len(ntfCfg.nus) THEN [r EXCEPT !.pc = "send", !.i = @ + 1]
    ELSE IF r.exc # 0 THEN [r EXCEPT !.pc = "exc"] ELSE IdleHandler

Succeeded(r) == r.i >= Len(ntfCfg.nus)

\* the handler is back from _sendSubscriptionAggregatedBatchNotification
AfterAggregated(r) ==
    IF r.ret = "store" THEN SenderDone(r)
    ELSE IF r.i < Len(ntfCfg.nus) THEN [r EXCEPT !.pc = "flush", !.i = @ + 1]
    ELSE [r EXCEPT !.pc = "remove"]

CountSuccess(log, r) ==
    IF r.ret = "store" /\ Succeeded(r) THEN [log EXCEPT !.k = @ + 1] ELSE log

\* BackgroundWorkerPool.stopWorkers(_workerID(ri, nu)): waiting actors leave the
\* pool, a running one finishes its run
StopGuards(nu) ==
    /\ guardPool' = [guardPool EXCEPT ![nu] = 0]
    /\ agg' = IF agg.held /\ agg.by = 0 /\ agg.nu = nu THEN [agg EXCEPT !.inPool = FALSE]
              ELSE agg

\* checkSubscriptions, lines 167-202: the records of the parent's subscriptions are
\* read and _handleSubscriptionNotification(sub, ...) is called with the record
checkSubscriptions(h) ==
    /\ hnd[h].pc = "idle"
    /\ ntfRec.exists
    /\ ntfLog.k <= MaxExc
    /\ hnd' = [hnd EXCEPT ![h] = [pc |-> "send", i |-> 1, exc |-> ntfRec.exc, ret |-> "store"]]
    /\ UNCHANGED <<ntfCfg, ntfRes, ntfRec, pending, stamp, guardPool, agg, ntfLog, notNtf>>

\* sender, lines 683-691: the request is stored (bn) or sent to the uri; ok is the
\* status of sendNotifyRequest.  _storeBatchNotification line 769: addBatchNotification
sender(h, ok) ==
    /\ hnd[h].pc = "send"
    /\ IF ntfCfg.bn.on
       THEN /\ ok
            /\ stamp <= MaxStamp
            /\ pending' = [pending EXCEPT ![NuOf(h)] = @ \cup {stamp}]
            /\ stamp' = stamp + 1
            /\ hnd' = [hnd EXCEPT ![h].pc = "count"]
            /\ UNCHANGED ntfLog
       ELSE /\ hnd' = [hnd EXCEPT ![h] = IF ok THEN SenderDone(@) ELSE IdleHandler]
            /\ ntfLog' = IF ok THEN CountSuccess(ntfLog, hnd[h]) ELSE ntfLog
            /\ UNCHANGED <<pending, stamp>>
    /\ UNCHANGED <<ntfCfg, ntfRes, ntfRec, guardPool, agg, notNtf>>

\* _storeBatchNotification, lines 772-785: bn/num reached -> stop the guard and send,
\* else _startNewBatchNotificationWorker, line 850: a guard exists already ?
storeBatchNotification(h) ==
    /\ hnd[h].pc = "count"
    /\ LET num == ntfCfg.bn.num
           cnt == Cardinality(pending[NuOf(h)])
       IN  IF num # 0 /\ cnt >= num
           THEN /\ StopGuards(NuOf(h))
                /\ hnd' = [hnd EXCEPT ![h].pc = "agg"]
                /\ UNCHANGED ntfLog
           ELSE /\ hnd' = [hnd EXCEPT ![h] =
                       IF guardPool[NuOf(h)] > 0 THEN SenderDone(@)
                       ELSE [@ EXCEPT !.pc = "newActor"]]
                /\ ntfLog' = IF guardPool[NuOf(h)] > 0 THEN CountSuccess(ntfLog, hnd[h])
                             ELSE ntfLog
                /\ UNCHANGED <<guardPool, agg>>
    /\ UNCHANGED <<ntfCfg, ntfRes, ntfRec, pending, stamp, notNtf>>

\* _startNewBatchNotificationWorker, line 853: newActor(..., delay = dur, name = ri;nu)
startNewBatchNotificationWorker(h) ==
    /\ hnd[h].pc = "newActor"
    /\ guardPool' = [guardPool EXCEPT ![NuOf(h)] = @ + 1]
    /\ hnd' = [hnd EXCEPT ![h] = SenderDone(@)]
    /\ ntfLog' = CountSuccess(ntfLog, hnd[h])
    /\ UNCHANGED <<ntfCfg, ntfRes, ntfRec, pending, stamp, agg, notNtf>>

\* _sendSubscriptionAggregatedBatchNotification, lines 793-802, called by a handler:
\* the lock is taken and the stored notifications are collected; none: return False
sendAggregated_collect(h) ==
    /\ hnd[h].pc = "agg"
    /\ ~agg.held
    /\ LET all == sortedByTstamp(pending[NuOf(h)])
       IN  IF all = <<>>
           THEN /\ hnd' = [hnd EXCEPT ![h] = AfterAggregated(@)]
                /\ ntfLog' = CountSuccess(ntfLog, hnd[h])
                /\ UNCHANGED agg
           ELSE /\ agg' = [held |-> TRUE, by |-> h, nu |-> NuOf(h), ln |-> ntfCfg.ln,
                           all |-> all, pc |-> "remove", inPool |-> FALSE]
                /\ hnd' = [hnd EXCEPT ![h].pc = "inAgg"]
                /\ UNCHANGED ntfLog
    /\ UNCHANGED <<ntfCfg, ntfRes, ntfRec, pending, stamp, guardPool, notNtf>>

\* the bn.dur guard actor of (ri, nu) fires: the same function, called with ri and nu
guardFires(nu) ==
    /\ guardPool[nu] > 0
    /\ ~agg.held
    /\ LET all == sortedByTstamp(pending[nu])
       IN  IF all = <<>>
           THEN /\ guardPool' = [guardPool EXCEPT ![nu] = @ - 1]
                /\ UNCHANGED agg
           ELSE /\ agg' = [held |-> TRUE, by |-> 0, nu |-> nu, ln |-> guardLn,
                           all |-> all, pc |-> "remove", inPool |-> TRUE]
                /\ UNCHANGED guardPool
    /\ UNCHANGED <<ntfCfg, ntfRes, ntfRec, hnd, pending, stamp, ntfLog, notNtf>>

\* line 821: CSE.storage.removeBatchNotifications(ri, nu), every stored request of the pair
sendAggregated_remove ==
    /\ agg.held
    /\ agg.pc = "remove"
    /\ pending' = [pending EXCEPT ![agg.nu] = {}]
    /\ agg' = [agg EXCEPT !.pc = "send"]
    /\ ntfLog' = [ntfLog EXCEPT !.overtaken = @ \cup (pending[agg.nu] \ Range(agg.all))]
    /\ UNCHANGED <<ntfCfg, ntfRes, ntfRec, hnd, stamp, guardPool, notNtf>>

\* lines 826-833: sendNotifyRequest(nu, {'m2m:agn': ...}) and the end of the with block
sendAggregated_send(ok) ==
    /\ agg.held
    /\ agg.pc = "send"
    /\ LET payload == aggregated(agg.all, agg.ln)
           log == [ntfLog EXCEPT
                     !.delivered = IF ok THEN @ \cup Range(agg.all) ELSE @,
                     !.lost = IF ok THEN @ ELSE @ \cup Range(agg.all),
                     !.resent = @ \/ (Range(payload) \cap ntfLog.delivered # {}),
                     !.last = [sent |-> TRUE, nu |-> agg.nu, all |-> agg.all,
                               payload |-> payload, ok |-> ok, guard |-> agg.by = 0]]
       IN  IF agg.by = 0
           THEN /\ guardPool' = [guardPool EXCEPT ![agg.nu] = IF agg.inPool THEN @ - 1 ELSE @]
                /\ ntfLog' = log
                /\ UNCHANGED hnd
           ELSE /\ hnd' = [hnd EXCEPT ![agg.by] = AfterAggregated(@)]
                /\ ntfLog' = CountSuccess(log, hnd[agg.by])
                /\ UNCHANGED guardPool
    /\ agg' = NoAgg
    /\ UNCHANGED <<ntfCfg, ntfRes, ntfRec, pending, stamp, notNtf>>

\* _handleSubscriptionNotification, lines 696-707: the counter of the record handed
\* in is decremented; the <sub> is deleted or resource and record are updated
handleExpiration(h) ==
    /\ hnd[h].pc = "exc"
    /\ LET exc == decrementedExc(hnd[h].exc)
       IN  IF ~ntfRes.exists
           THEN \* retrieveResource(...).resource is None: the handler ends in an exception
                /\ hnd' = [hnd EXCEPT ![h] = IdleHandler]
                /\ UNCHANGED <<ntfRes, ntfRec>>
           ELSE IF expired(exc)
           THEN /\ hnd' = [hnd EXCEPT ![h] = [@ EXCEPT !.pc = "flush", !.i = 1, !.ret = "flush"]]
                /\ UNCHANGED <<ntfRes, ntfRec>>
           ELSE /\ ntfRes' = [exists |-> TRUE, exc |-> exc]
                /\ ntfRec' = [exists |-> TRUE, exc |-> exc]
                /\ hnd' = [hnd EXCEPT ![h] = IdleHandler]
    /\ UNCHANGED <<ntfCfg, pending, stamp, guardPool, agg, ntfLog, notNtf>>

\* deleteResource -> removeSubscription line 93 -> _flushBatchNotifications, lines
\* 750-754: for each nu the guard is stopped and what is stored is sent
flushBatchNotifications(h) ==
    /\ hnd[h].pc = "flush"
    /\ IF hnd[h].i = 1 /\ ~ntfRec.exists
       THEN /\ hnd' = [hnd EXCEPT ![h].pc = "remove"]
            /\ UNCHANGED <<guardPool, agg>>
       ELSE /\ StopGuards(NuOf(h))
            /\ hnd' = [hnd EXCEPT ![h].pc = "agg"]
    /\ UNCHANGED <<ntfCfg, ntfRes, ntfRec, pending, stamp, ntfLog, notNtf>>

\* removeSubscription line 104 and the end of deleteResource: record and resource go
removeExpiredSubscription(h) ==
    /\ hnd[h].pc = "remove"
    /\ ntfRec' = Gone
    /\ ntfRes' = Gone
    /\ hnd' = [hnd EXCEPT ![h] = IdleHandler]
    /\ ntfLog' = [ntfLog EXCEPT !.left = [done |-> TRUE, pending |-> pending,
                                          guardPool |-> guardPool]]
    /\ UNCHANGED <<ntfCfg, pending, stamp, guardPool, agg, notNtf>>

NextNtf ==
    \/ \E h \in Handlers : checkSubscriptions(h)
    \/ \E h \in Handlers, ok \in BOOLEAN : sender(h, ok)
    \/ \E h \in Handlers : storeBatchNotification(h)
    \/ \E h \in Handlers : startNewBatchNotificationWorker(h)
    \/ \E h \in Handlers : sendAggregated_collect(h)
    \/ \E nu \in NtfNus : guardFires(nu)
    \/ sendAggregated_remove
    \/ \E ok \in BOOLEAN : sendAggregated_send(ok)
    \/ \E h \in Handlers : handleExpiration(h)
    \/ \E h \in Handlers : flushBatchNotifications(h)
    \/ \E h \in Handlers : removeExpiredSubscription(h)

\* ==================================================================
\*  Storage and TinyDBBinding: five tables, five locks
\* ==================================================================
Clients == {"t1", "t2"}
Tables == {"Resources", "Identifiers", "Subscriptions", "Statistics", "AppData"}
RIs == {"r1", "r2"}
SRNs == {"s1", "s2"}
AppIds == {"a1", "a2"}
Stats == {"st1", "st2"}
Free == "free"
IdleClient == [pc |-> "idle", op |-> "none", ri |-> "none", srn |-> "none",
               q |-> "none", stage |-> 0, holds |-> FALSE]
NoPurge == [pc |-> "idle", i |-> 0, flux |-> FALSE]
NoView == [during |-> FALSE]

\* purgeDB lines 416-420: the order of the truncate() calls
PurgeOrder == <<"Resources", "Identifiers", "Subscriptions", "Statistics", "AppData">>

\* the `with self.lockX:` each TinyDBBinding method runs in
LockOf(pc) ==
    CASE pc \in {"insertResource", "upsertResource", "deleteResource",
                 "searchResources", "hasResource"} -> "Resources"
      [] pc \in {"insertIdentifier", "deleteIdentifier", "searchIdentifiers"} -> "Identifiers"
      [] pc \in {"upsertSubscription", "removeSubscription", "searchSubscriptions"}
             -> "Subscriptions"
      [] pc \in {"upsertStatistics", "searchStatistics"} -> "Statistics"
      [] pc \in {"upsertAppData", "removeAppData", "searchAppData"} -> "AppData"

\* TinyDB search(Query().ri == ri), search(Query().srn == srn), search(Query().id == id)
WithRi(s, ri) == SelectSeq(s, LAMBDA d : d.ri = ri)

WithSrn(s, srn) == SelectSeq(s, LAMBDA d : d.srn = srn)

WithId(s, id) == SelectSeq(s, LAMBDA d : d.id = id)

\* TinyDB remove(Query().ri == ri)
WithoutRi(s, ri) == SelectSeq(s, LAMBDA d : d.ri # ri)

\* TinyDB upsert(doc, Query().ri == ri): every matching document is updated, and the
\* document is inserted when there is none
UpsertRi(s, doc) ==
    IF WithRi(s, doc.ri) # <<>>
    THEN [i \in 1..Len(s) |-> IF s[i].ri = doc.ri THEN doc ELSE s[i]]
    ELSE Append(s, doc)

RECURSIVE Restrict(_, _)
Restrict(s, I) ==
    IF s = <<>> THEN <<>>
    ELSE LET front == Restrict(SubSeq(s, 1, Len(s) - 1), I)
         IN  IF Len(s) \in I THEN Append(front, s[Len(s)]) ELSE front

Truncating(T) == purge.flux /\ PurgeOrder[purge.i] = T

\* what a read of table T gets: the table, or, while truncate() runs on it without the
\* table's lock, any part of it
Views(T) ==
    IF Truncating(T) THEN {Restrict(tab[T], I) : I \in SUBSET (1..Len(tab[T]))}
    ELSE {tab[T]}

\* the result a read got, next to the result the stored table gives
Seen(T, got, whole) ==
    IF Truncating(T) THEN [during |-> TRUE, table |-> T, full |-> whole, seen |-> got]
    ELSE view

\* openDB, lines 380-402: the tables are those of the files of the last run, here
\* nothing or one resource with its identifier
StoredAtStart == {<<>>, <<[ri |-> "r1", srn |-> "s1"]>>}

\* searchResources(srn = ...), lines 460-463, then 465-467, on given table contents
searchResourcesBySrn(identifiers, resources, srn) ==
    LET ids == WithSrn(identifiers, srn)
    IN  IF Len(ids) = 1 THEN WithRi(resources, ids[1].ri) ELSE <<>>

InitStore ==
    /\ \E s \in StoredAtStart :
          tab = [T \in Tables |-> IF T \in {"Resources", "Identifiers"} THEN s ELSE <<>>]
    /\ lock = [T \in Tables |-> Free]
    /\ cl = [t \in Clients |-> IdleClient]
    /\ purge = NoPurge
    /\ view = NoView
    /\ calls = 0
    /\ overlap = FALSE

Busy(t) == \E u \in Clients \ {t} : cl[u].pc # "idle"

\* a client thread calls into Storage: the first TinyDBBinding method it will run
Call(t, op, pc, ri, srn, q) ==
    /\ cl[t].pc = "idle"
    /\ calls < MaxCalls
    /\ calls' = calls + 1
    /\ overlap' = (overlap \/ Busy(t))
    /\ cl' = [cl EXCEPT ![t] = [pc |-> pc, op |-> op, ri |-> ri, srn |-> srn, q |-> q,
                                stage |-> 1, holds |-> FALSE]]
    /\ UNCHANGED <<tab, lock, purge, view, notStore>>

\* the thread leaves the `with` block and goes on to the next method, or returns
Leave(t, r) ==
    /\ cl' = [cl EXCEPT ![t] = r]
    /\ lock' = [lock EXCEPT ![LockOf(cl[t].pc)] = Free]

Goto(t, pc) == [cl[t] EXCEPT !.pc = pc, !.holds = FALSE]

Inside(t, pc) == cl[t].pc = pc /\ cl[t].holds

\* Storage.createResource, lines 78-101
createResource(t, ri, srn, overwrite) ==
    IF overwrite THEN Call(t, "createResource", "upsertResource", ri, srn, "none")
    ELSE Call(t, "createResource", "hasResource", ri, srn, ri)

\* Storage.deleteResource, lines 192-199
deleteResource(t, ri) == Call(t, "deleteResource", "deleteResource", ri, "none", "none")

\* Storage.retrieveResource(srn = ...), lines 118-120
retrieveResource(t, srn) == Call(t, "retrieveResource", "searchIdentifiers", "none", srn, "none")

\* Storage.retrieveResourcesByType, lines 137-140: all resources have the one type
retrieveResourcesByType(t) ==
    Call(t, "retrieveResourcesByType", "searchResources", "none", "none", "ty")

\* Storage.addSubscription / updateSubscription, lines 287-299
Storage_addSubscription(t, ri) == Call(t, "addSubscription", "upsertSubscription", ri, "none", "none")

\* Storage.removeSubscription, lines 292-294
Storage_removeSubscription(t, ri) ==
    Call(t, "removeSubscription", "removeSubscription", ri, "none", "none")

\* Storage.getSubscription, lines 274-279
getSubscription(t, ri) == Call(t, "getSubscription", "searchSubscriptions", ri, "none", "none")

\* Storage.updateStatistics, lines 311-312
updateStatistics(t, stats) == Call(t, "updateStatistics", "upsertStatistics", "none", "none", stats)

\* Storage.getStatistics, lines 307-308
getStatistics(t) == Call(t, "getStatistics", "searchStatistics", "none", "none", "none")

\* Storage.updateAppData, lines 325-326
updateAppData(t, id) == Call(t, "updateAppData", "upsertAppData", "none", "none", id)

\* Storage.removeAppData, lines 329-330
removeAppData(t, id) == Call(t, "removeAppData", "removeAppData", "none", "none", id)

\* Storage.getAppData, lines 321-322
getAppData(t, id) == Call(t, "getAppData", "searchAppData", "none", "none", id)

\* `with self.lockX:` of the method the thread is about to run; threading.Lock blocks
acquire(t) ==
    /\ cl[t].pc # "idle"
    /\ ~cl[t].holds
    /\ lock[LockOf(cl[t].pc)] = Free
    /\ lock' = [lock EXCEPT ![LockOf(cl[t].pc)] = t]
    /\ cl' = [cl EXCEPT ![t].holds = TRUE]
    /\ UNCHANGED <<tab, purge, view, calls, overlap, notStore>>

\* TinyDBBinding.upsertResource, lines 433-436
db_upsertResource(t) ==
    /\ Inside(t, "upsertResource")
    /\ tab' = [tab EXCEPT !["Resources"] = UpsertRi(@, [ri |-> cl[t].ri, srn |-> cl[t].srn])]
    /\ Leave(t, Goto(t, "insertIdentifier"))
    /\ UNCHANGED <<purge, view, calls, overlap, notStore>>

\* TinyDBBinding.hasResource, lines 484-498, the part under lockResources; called by
\* Storage.hasResource (105-106) for the ri, then for the ri found for the srn
db_hasResource(t) ==
    /\ Inside(t, "hasResource")
    /\ \E v \in Views("Resources") :
        LET found == cl[t].q # "none" /\ WithRi(v, cl[t].q) # <<>>
        IN  /\ view' = Seen("Resources", WithRi(v, cl[t].q), WithRi(tab["Resources"], cl[t].q))
            /\ Leave(t, IF found THEN IdleClient         \* rcAlreadyExists, line 97
                        ELSE IF cl[t].stage = 1 THEN Goto(t, "searchIdentifiers")
                        ELSE Goto(t, "insertResource"))
    /\ UNCHANGED <<tab, purge, calls, overlap, notStore>>

\* TinyDBBinding.searchIdentifiers, lines 532-538, called with the srn by hasResource
\* (488-489) and by searchResources (461-463)
db_searchIdentifiers(t) ==
    /\ Inside(t, "searchIdentifiers")
    /\ \E v \in Views("Identifiers") :
        LET identifiers == WithSrn(v, cl[t].srn)
            ri == IF Len(identifiers) = 1 THEN identifiers[1].ri ELSE "none"
        IN  /\ view' = Seen("Identifiers", identifiers, WithSrn(tab["Identifiers"], cl[t].srn))
            /\ Leave(t, IF cl[t].op = "createResource"
                        THEN [Goto(t, "hasResource") EXCEPT !.q = ri, !.stage = 2]
                        ELSE IF ri # "none"
                        THEN [Goto(t, "searchResources") EXCEPT !.q = ri]
                        ELSE IdleClient)                 \* return [], line 463
    /\ UNCHANGED <<tab, purge, calls, overlap, notStore>>

\* TinyDBBinding.insertResource, lines 428-430
db_insertResource(t) ==
    /\ Inside(t, "insertResource")
    /\ tab' = [tab EXCEPT !["Resources"] = Append(@, [ri |-> cl[t].ri, srn |-> cl[t].srn])]
    /\ Leave(t, Goto(t, "insertIdentifier"))
    /\ UNCHANGED <<purge, view, calls, overlap, notStore>>

\* TinyDBBinding.insertIdentifier, lines 519-524: an upsert on the ri
db_insertIdentifier(t) ==
    /\ Inside(t, "insertIdentifier")
    /\ tab' = [tab EXCEPT !["Identifiers"] = UpsertRi(@, [ri |-> cl[t].ri, srn |-> cl[t].srn])]
    /\ Leave(t, IdleClient)
    /\ UNCHANGED <<purge, view, calls, overlap, notStore>>

\* TinyDBBinding.deleteResource, lines 452-454
db_deleteResource(t) ==
    /\ Inside(t, "deleteResource")
    /\ tab' = [tab EXCEPT !["Resources"] = WithoutRi(@, cl[t].ri)]
    /\ Leave(t, Goto(t, "deleteIdentifier"))
    /\ UNCHANGED <<purge, view, calls, overlap, notStore>>

\* TinyDBBinding.deleteIdentifier, lines 527-529
db_deleteIdentifier(t) ==
    /\ Inside(t, "deleteIdentifier")
    /\ tab' = [tab EXCEPT !["Identifiers"] = WithoutRi(@, cl[t].ri)]
    /\ Leave(t, IdleClient)
    /\ UNCHANGED <<purge, view, calls, overlap, notStore>>

\* TinyDBBinding.searchResources, lines 465-476, the part under lockResources
db_searchResources(t) ==
    /\ Inside(t, "searchResources")
    /\ \E v \in Views("Resources") :
        view' = IF cl[t].q = "ty" THEN Seen("Resources", v, tab["Resources"])
                ELSE Seen("Resources", WithRi(v, cl[t].q), WithRi(tab["Resources"], cl[t].q))
    /\ Leave(t, IdleClient)
    /\ UNCHANGED <<tab, purge, calls, overlap, notStore>>

\* TinyDBBinding.upsertSubscription, lines 555-566
db_upsertSubscription(t) ==
    /\ Inside(t, "upsertSubscription")
    /\ tab' = [tab EXCEPT !["Subscriptions"] = UpsertRi(@, [ri |-> cl[t].ri])]
    /\ Leave(t, IdleClient)
    /\ UNCHANGED <<purge, view, calls, overlap, notStore>>

\* TinyDBBinding.removeSubscription, lines 569-571
db_removeSubscription(t) ==
    /\ Inside(t, "removeSubscription")
    /\ tab' = [tab EXCEPT !["Subscriptions"] = WithoutRi(@, cl[t].ri)]
    /\ Leave(t, IdleClient)
    /\ UNCHANGED <<purge, view, calls, overlap, notStore>>

\* TinyDBBinding.searchSubscriptions, lines 546-552
db_searchSubscriptions(t) ==
    /\ Inside(t, "searchSubscriptions")
    /\ \E v \in Views("Subscriptions") : view' = Seen("Subscriptions", WithRi(v, cl[t].ri), WithRi(tab["Subscriptions"], cl[t].ri))
    /\ Leave(t, IdleClient)
    /\ UNCHANGED <<tab, purge, calls, overlap, notStore>>

\* TinyDBBinding.upsertStatistics, lines 584-589: update of document 1, or insert
db_upsertStatistics(t) ==
    /\ Inside(t, "upsertStatistics")
    /\ tab' = [tab EXCEPT !["Statistics"] =
                 IF Len(@) > 0 THEN [@ EXCEPT ![1] = [stats |-> cl[t].q]]
                 ELSE Append(@, [stats |-> cl[t].q])]
    /\ Leave(t, IdleClient)
    /\ UNCHANGED <<purge, view, calls, overlap, notStore>>

\* TinyDBBinding.searchStatistics, lines 578-581
db_searchStatistics(t) ==
    /\ Inside(t, "searchStatistics")
    /\ \E v \in Views("Statistics") : view' = Seen("Statistics", v, tab["Statistics"])
    /\ Leave(t, IdleClient)
    /\ UNCHANGED <<tab, purge, calls, overlap, notStore>>

\* TinyDBBinding.upsertAppData, lines 602-609: update where the id matches when the
\* table is not empty, insert when it is empty
db_upsertAppData(t) ==
    /\ Inside(t, "upsertAppData")
    /\ tab' = [tab EXCEPT !["AppData"] =
                 IF Len(@) > 0 THEN @ ELSE Append(@, [id |-> cl[t].q])]
    /\ Leave(t, IdleClient)
    /\ UNCHANGED <<purge, view, calls, overlap, notStore>>

\* TinyDBBinding.removeAppData, lines 612-616
db_removeAppData(t) ==
    /\ Inside(t, "removeAppData")
    /\ tab' = [tab EXCEPT !["AppData"] = SelectSeq(@, LAMBDA d : d.id # cl[t].q)]
    /\ Leave(t, IdleClient)
    /\ UNCHANGED <<purge, view, calls, overlap, notStore>>

\* TinyDBBinding.searchAppData, lines 596-599
db_searchAppData(t) ==
    /\ Inside(t, "searchAppData")
    /\ \E v \in Views("AppData") : view' = Seen("AppData", WithId(v, cl[t].q), WithId(tab["AppData"], cl[t].q))
    /\ Leave(t, IdleClient)
    /\ UNCHANGED <<tab, purge, calls, overlap, notStore>>

\* TinyDBBinding.purgeDB, lines 414-420, is entered: no `with`, no lock is taken
purgeDB ==
    /\ purge.pc = "idle"
    /\ purge' = [pc |-> "truncate", i |-> 1, flux |-> FALSE]
    /\ overlap' = (overlap \/ \E t \in Clients : cl[t].pc # "idle")
    /\ UNCHANGED <<tab, lock, cl, view, calls, notStore>>

\* tabX.truncate() starts on the next table, whoever holds the table's lock
truncate_begin ==
    /\ purge.pc = "truncate"
    /\ ~purge.flux
    /\ purge' = [purge EXCEPT !.flux = TRUE]
    /\ UNCHANGED <<tab, lock, cl, view, calls, overlap, notStore>>

\* tabX.truncate() is done: the table is empty
truncate_end ==
    /\ purge.pc = "truncate"
    /\ purge.flux
    /\ tab' = [tab EXCEPT ![PurgeOrder[purge.i]] = <<>>]
    /\ purge' = IF purge.i < Len(PurgeOrder) THEN [purge EXCEPT !.i = @ + 1, !.flux = FALSE]
                ELSE [pc |-> "done", i |-> 0, flux |-> FALSE]
    /\ UNCHANGED <<lock, cl, view, calls, overlap, notStore>>

NextStore ==
    \/ \E t \in Clients, ri \in RIs, srn \in SRNs, overwrite \in BOOLEAN :
           createResource(t, ri, srn, overwrite)
    \/ \E t \in Clients, ri \in RIs : deleteResource(t, ri)
    \/ \E t \in Clients, srn \in SRNs : retrieveResource(t, srn)
    \/ \E t \in Clients : retrieveResourcesByType(t)
    \/ \E t \in Clients, ri \in RIs : Storage_addSubscription(t, ri)
    \/ \E t \in Clients, ri \in RIs : Storage_removeSubscription(t, ri)
    \/ \E t \in Clients, ri \in RIs : getSubscription(t, ri)
    \/ \E t \in Clients, stats \in Stats : updateStatistics(t, stats)
    \/ \E t \in Clients : getStatistics(t)
    \/ \E t \in Clients, id \in AppIds : updateAppData(t, id)
    \/ \E t \in Clients, id \in AppIds : removeAppData(t, id)
    \/ \E t \in Clients, id \in AppIds : getAppData(t, id)
    \/ \E t \in Clients : acquire(t)
    \/ \E t \in Clients : db_upsertResource(t)
    \/ \E t \in Clients : db_hasResource(t)
    \/ \E t \in Clients : db_searchIdentifiers(t)
    \/ \E t \in Clients : db_insertResource(t)
    \/ \E t \in Clients : db_insertIdentifier(t)
    \/ \E t \in Clients : db_deleteResource(t)
    \/ \E t \in Clients : db_deleteIdentifier(t)
    \/ \E t \in Clients : db_searchResources(t)
    \/ \E t \in Clients : db_upsertSubscription(t)
    \/ \E t \in Clients : db_removeSubscription(t)
    \/ \E t \in Clients : db_searchSubscriptions(t)
    \/ \E t \in Clients : db_upsertStatistics(t)
    \/ \E t \in Clients : db_searchStatistics(t)
    \/ \E t \in Clients : db_upsertAppData(t)
    \/ \E t \in Clients : db_removeAppData(t)
    \/ \E t \in Clients : db_searchAppData(t)
    \/ purgeDB
    \/ truncate_begin
    \/ truncate_end

\* ==================================================================
\*  SecurityManager: access control
\* ==================================================================
NoCall == [op |-> "none"]

\* Permission flags: a set of flags is a bit mask, & is the intersection
Permissions == {"CREATE", "RETRIEVE", "UPDATE", "NOTIFY"}
CREATE == {"CREATE"}
RETRIEVE == {"RETRIEVE"}
UPDATE == {"UPDATE"}
NOTIFY == {"NOTIFY"}

\* the <grp> resources an acor entry can name: grp1 can be retrieved, grpGone cannot
GroupRIs == {"grp1", "grpGone"}
GroupMid(a) == IF a = "grp1" THEN {"Cae"} ELSE {}
GroupRetrievable(a) == a = "grp1"

\* TextTools.simpleMatch(originator, pattern): C* is the one pattern with a wildcard
simpleMatch(st, pattern) ==
    \/ st = pattern
    \/ pattern = "C*" /\ st \in {"CAdmin", "Cae", "Cother"}

\* _checkAcor, lines 575-586: the loop over the acor entries, from entry i on
RECURSIVE checkAcorFrom(_, _, _)
checkAcorFrom(acor, i, originator) ==
    IF i > Len(acor) THEN FALSE
    ELSE IF acor[i] \in GroupRIs /\ ~GroupRetrievable(acor[i])
         THEN checkAcorFrom(acor, i + 1, originator)        \* except ...: continue
         ELSE IF acor[i] \in GroupRIs /\ originator \in GroupMid(acor[i]) THEN TRUE
         ELSE IF simpleMatch(originator, acor[i]) THEN TRUE
         ELSE checkAcorFrom(acor, i + 1, originator)

\* _checkAcor, lines 556-589
checkAcor(acor, originator) ==
    IF "all" \in Range(acor) \/ originator \in Range(acor) THEN TRUE
    ELSE checkAcorFrom(acor, 1, originator)

\* lines 498-507: one acod entry, the `continue` conditions negated
acodEntryFits(eachAcod, requestedPermission, ty) ==
    IF requestedPermission = CREATE
    THEN ~(ty = None \/ ty \notin eachAcod.chty)
    ELSE ~(ty # None /\ ty # eachAcod.ty)

acodLoop_FirstEntryOnly(acod, j, requestedPermission, ty) ==
    j <= Len(acod) /\ acodEntryFits(acod[j], requestedPermission, ty)

\* lines 497-509: for eachAcod in acod: ... break / else: continue
RECURSIVE acodLoop(_, _, _, _)
acodLoop(acod, j, requestedPermission, ty) ==
    IF j > Len(acod) THEN FALSE
    ELSE IF acodEntryFits(acod[j], requestedPermission, ty) THEN TRUE
    ELSE acodLoop(acod, j + 1, requestedPermission, ty)

\* checkSingleACPPermission, lines 489-514: the loop over pv/acr from rule i on
RECURSIVE checkSinglePermissionFrom(_, _, _, _, _)
checkSinglePermissionFrom(pv, i, originator, requestedPermission, ty) ==
    IF i > Len(pv) THEN FALSE
    ELSE LET acr == pv[i]
             next == checkSinglePermissionFrom(pv, i + 1, originator, requestedPermission, ty)
         IN  IF requestedPermission \cap acr.acop = {} THEN next
             ELSE IF acr.acod # <<>> /\ ~acodLoop(acr.acod, 1, requestedPermission, ty) THEN next
             ELSE IF checkAcor(acr.acor, originator) THEN TRUE
             ELSE next

checkSingleACPPermission(pv, originator, requestedPermission, ty) ==
    checkSinglePermissionFrom(pv, 1, originator, requestedPermission, ty)

\* checkACPSelfPermission, lines 529-537, for an <ACP>: the loop over pvs/acr
RECURSIVE selfPermissionACP(_, _, _, _)
selfPermissionACP(pvs, i, originator, requestedPermission) ==
    IF i > Len(pvs) THEN FALSE
    ELSE IF requestedPermission \cap pvs[i].acop = {}
         THEN selfPermissionACP(pvs, i + 1, originator, requestedPermission)
         ELSE IF checkAcor(pvs[i].acor, originator) THEN TRUE
         ELSE selfPermissionACP(pvs, i + 1, originator, requestedPermission)

\* checkACPSelfPermission, lines 538-551, for an <ACPAnnc>: literal, all or wildcard
RECURSIVE selfPermissionACPAnnc(_, _, _, _)
selfPermissionACPAnnc(pvs, i, originator, requestedPermission) ==
    IF i > Len(pvs) THEN FALSE
    ELSE IF requestedPermission \cap pvs[i].acop = {}
         THEN selfPermissionACPAnnc(pvs, i + 1, originator, requestedPermission)
         ELSE IF "all" \in Range(pvs[i].acor) \/ originator \in Range(pvs[i].acor) THEN TRUE
         ELSE IF \E a \in Range(pvs[i].acor) : simpleMatch(originator, a) THEN TRUE
         ELSE selfPermissionACPAnnc(pvs, i + 1, originator, requestedPermission)

checkACPSelfPermission(acp, originator, requestedPermission) ==
    CASE acp.ty = "ACP" -> selfPermissionACP(acp.pvs, 1, originator, requestedPermission)
      [] acp.ty = "ACPAnnc" -> selfPermissionACPAnnc(acp.pvs, 1, originator, requestedPermission)
      [] OTHER -> FALSE

\* the rules tried: acop, acod (<<>> when the rule has none) and acor
AcodLists == {<<>>,
              <<[ty |-> "CNT", chty |-> {"CIN"}]>>,
              <<[ty |-> None, chty |-> {}], [ty |-> "CIN", chty |-> {"CNT"}]>>}
AcorLists == {<<>>, <<"all">>, <<"Cae">>, <<"C*">>, <<"grp1">>, <<"grpGone", "Cother">>}
Rules == [acop : {RETRIEVE, CREATE \cup UPDATE}, acod : AcodLists, acor : AcorLists]
RuleLists == UNION {[1..n -> Rules] : n \in 0..MaxRules}
RuleTypes == {None, "CNT", "CIN"}

\* ---- the CSE around the SecurityManager
cseOriginator == "CAdmin"
slashCseOriginator == "/CAdmin"
cseCsi == "/id-in"
cseSPRelative == "/id-in/cse-in"
registrarCSI == None
allowedAEOriginators == <<"C*">>
allowedCSROriginators == <<"id-mn">>
RegisteredAEs == {"Cae"}

SecOriginators ==
    {None, "CAdmin", "/id-in/CAdmin", "/id-in", "/id-mn", "Cae", "/id-in/Cae", "Cother"}

\* originator.endswith(slashCseOriginator)
endswithSlashCseOriginator(originator) == originator = "/id-in/CAdmin"

\* isSPRelative(originator) and originator.startswith(CSE.cseCsiSlash)
isOwnSPRelative(originator) == originator \in {"/id-in/CAdmin", "/id-in/Cae"}

toCSERelative(originator) ==
    CASE originator = "/id-in/CAdmin" -> "CAdmin"
      [] originator = "/id-in/Cae" -> "Cae"
      [] OTHER -> originator

getIdFromOriginator(originator) ==
    CASE originator = "/id-in/CAdmin" -> "CAdmin"
      [] originator = "/id-in/Cae" -> "Cae"
      [] originator = "/id-in" -> "id-in"
      [] originator = "/id-mn" -> "id-mn"
      [] OTHER -> originator

\* originator[1:]
withoutFirstCharacter(originator) ==
    CASE originator = "/id-in/CAdmin" -> "id-in/CAdmin"
      [] originator = "/id-in/Cae" -> "id-in/Cae"
      [] originator = "/id-in" -> "id-in"
      [] originator = "/id-mn" -> "id-mn"
      [] originator = "CAdmin" -> "Admin"
      [] originator = "Cae" -> "ae"
      [] OTHER -> "other"

isAllowedOriginator(originator, allowedOriginators) ==
    IF originator = None \/ allowedOriginators = <<>> THEN FALSE
    ELSE IF originator \in {cseCsi, cseSPRelative} THEN TRUE
    ELSE \E i \in 1..Len(allowedOriginators) :
            simpleMatch(getIdFromOriginator(originator), allowedOriginators[i])

\* ---- the <ACP> resources that acpi and macp can name; acpGone cannot be retrieved
AcpIds == {"acpAll", "acpAe", "acpSelf", "acpGone"}
AcpTable ==
    [a \in AcpIds \ {"acpGone"} |->
        CASE a = "acpAll" ->
                [ty |-> "ACP",
                 pv |-> <<[acop |-> Permissions, acod |-> <<>>, acor |-> <<"all">>]>>,
                 pvs |-> <<[acop |-> RETRIEVE, acor |-> <<"all">>]>>]
          [] a = "acpAe" ->
                [ty |-> "ACP",
                 pv |-> <<[acop |-> RETRIEVE \cup CREATE, acod |-> <<>>, acor |-> <<"Cae">>]>>,
                 pvs |-> <<[acop |-> UPDATE, acor |-> <<"Cae">>]>>]
          [] a = "acpSelf" ->
                [ty |-> "ACPAnnc",
                 pv |-> <<>>,
                 pvs |-> <<[acop |-> UPDATE, acor |-> <<"grp1">>],
                           [acop |-> UPDATE \cup RETRIEVE, acor |-> <<"Cother">>]>>]]

\* CSE.dispatcher.retrieveResource(acpRi) returns a resource or raises
AcpRetrievable(acpRi) == acpRi \in DOMAIN AcpTable

AcpiLists == UNION {[1..n -> AcpIds] : n \in 0..MaxAcpi}

\* ---- the resources hasAccess is asked about
BaseResource ==
    [ri |-> "r1", ty |-> "CNT", acpi |-> <<>>, mayAcpi |-> TRUE, cstn |-> None,
     creator |-> "Cae", inheritACP |-> FALSE, pi |-> "p1", macp |-> <<>>, at |-> {},
     lnk |-> None, pvs |-> <<>>, parentOriginator |-> None]

\* parentResource = None
NoParent == [ri |-> None]

\* the parent that resource.pi = "p1" names; the parent "pGone" cannot be retrieved
ParentP1 == [BaseResource EXCEPT !.ri = "p1", !.pi = "cse", !.acpi = <<"acpAe">>]
ParentRetrievable(pi) == pi = "p1"

SecResources ==
    {[BaseResource EXCEPT !.acpi = a, !.cstn = c, !.at = t] :
        a \in AcpiLists, c \in {None, "Cother", "/id-in/Cae"}, t \in {{}, {"Cother"}}}
    \cup {[BaseResource EXCEPT !.ty = "CIN", !.mayAcpi = FALSE, !.inheritACP = i, !.pi = pi] :
            i \in BOOLEAN, pi \in {"p1", "pGone"}}
    \cup {[BaseResource EXCEPT !.ty = "GRP", !.macp = m, !.acpi = a] :
            m \in {<<>>, <<"acpAe">>, <<"acpGone", "acpAll">>}, a \in {<<>>, <<"acpAll">>}}
    \cup {[BaseResource EXCEPT !.ty = t, !.mayAcpi = FALSE, !.pvs = AcpTable[a].pvs] :
            t \in {"ACP", "ACPAnnc"}, a \in {"acpAe", "acpSelf"}}
    \cup {[BaseResource EXCEPT !.ty = "SUB", !.acpi = a] : a \in {<<>>, <<"acpAll">>}}
    \cup {[BaseResource EXCEPT !.ty = "PCH", !.mayAcpi = FALSE, !.parentOriginator = "Cae"]}
    \cup {[BaseResource EXCEPT !.ty = "CSEBase", !.creator = None, !.acpi = <<"acpAe">>]}
    \cup {[BaseResource EXCEPT !.ty = "CNTAnnc", !.lnk = "/id-mn", !.acpi = a] :
            a \in {<<>>, <<"acpAe">>}}

SecConfigs == [enableACPChecks : BOOLEAN, fullAccessAdmin : BOOLEAN]
RequestedPermissions == {{}, CREATE, RETRIEVE, UPDATE, NOTIFY}
RequestTypes == {None, "AE", "CSR", "CNT", "CNTAnnc"}
AnnouncedTypes == {"CNTAnnc", "ACPAnnc", "CSEBaseAnnc"}

\* hasAccess._checkACPI, lines 190-212
checkACPI(originator, acpRi, requestedPermission, ty) ==
    IF ~AcpRetrievable(acpRi) THEN FALSE
    ELSE checkSingleACPPermission(AcpTable[acpRi].pv, originator, requestedPermission, ty)

\* for acpRi in ...: if _checkACPI(...): return True
anyACPI(acpRis, originator, requestedPermission, ty) ==
    \E i \in 1..Len(acpRis) : checkACPI(originator, acpRis[i], requestedPermission, ty)

Returns(result, stage) == [result |-> result, stage |-> stage]

furtherPermissionChecks_CreatorAfterCustodian(originator, resource, requestedPermission, ty, parentResource, onParent) ==
    IF resource.acpi = <<>>
    THEN IF resource.mayAcpi
         THEN IF resource.cstn = originator THEN Returns(TRUE, "custodian")
              ELSE IF resource.creator = originator THEN Returns(TRUE, "creator")
              ELSE Returns(FALSE, "noAcpi")
         ELSE IF resource.inheritACP
              THEN IF parentResource = NoParent /\ ~ParentRetrievable(resource.pi)
                   THEN Returns(FALSE, "parentNotFound")
                   ELSE Returns(onParent, "parent")
              ELSE Returns(FALSE, "noAcpi")
    ELSE Returns(anyACPI(resource.acpi, originator, requestedPermission, ty), "acpi")

\* lines 376-425: the checks without acpi and the acpi loop; onParent is the outcome
\* of hasAccess on the parent resource
furtherPermissionChecks(originator, resource, requestedPermission, ty, parentResource, onParent) ==
    IF resource.acpi = <<>>
    THEN IF resource.mayAcpi
         THEN IF resource.cstn # None
              THEN IF resource.cstn = originator THEN Returns(TRUE, "custodian")
                   ELSE Returns(FALSE, "noAcpi")
              ELSE IF resource.creator = originator THEN Returns(TRUE, "creator")
                   ELSE Returns(FALSE, "noAcpi")
         ELSE IF resource.inheritACP
              THEN IF parentResource = NoParent /\ ~ParentRetrievable(resource.pi)
                   THEN Returns(FALSE, "parentNotFound")
                   ELSE Returns(onParent, "parent")
              ELSE Returns(FALSE, "noAcpi")
    ELSE Returns(anyACPI(resource.acpi, originator, requestedPermission, ty), "acpi")

\* lines 251-280: the tests on ty; "none" when they fall through
typeTests(originator, requestedPermission, ty, parentResource) ==
    IF ty = None THEN "none"
    ELSE IF requestedPermission = CREATE /\ ty = "AE"
              /\ isAllowedOriginator(originator, allowedAEOriginators) THEN "granted"
    ELSE IF requestedPermission = CREATE /\ ty \in {"CSR", "CSEBaseAnnc"}
         THEN IF isAllowedOriginator(originator, allowedCSROriginators)
              THEN "granted" ELSE "denied"
    ELSE IF ty \in AnnouncedTypes
         THEN IF \/ isAllowedOriginator(originator, allowedCSROriginators)
                 \/ parentResource # NoParent
                        /\ withoutFirstCharacter(originator) = parentResource.ri
              THEN "granted" ELSE "denied"
    ELSE "none"

\* lines 287-297: an announced resource and its originator, an announcement target
\* (at holds the originators that prefix an entry of resource.at; no at is the empty set)
announcementTests(originator, resource, requestedPermission) ==
    \/ /\ resource.ty \in AnnouncedTypes
       /\ isAllowedOriginator(originator, allowedCSROriginators)
       /\ resource.lnk = originator
    \/ /\ requestedPermission = UPDATE
       /\ originator \in resource.at

\* lines 301-369: match resource.ty; "none" when the case falls through.
\* retrieveOnParent is hasAccess(originator, parentResource, Permission.RETRIEVE)
resourceTypeTests(originator, resource, requestedPermission, ty, parentResource, retrieveOnParent) ==
    CASE resource.ty = "CSEBase" /\ requestedPermission \cap RETRIEVE # {} ->
            IF \/ originator = registrarCSI
               \/ isAllowedOriginator(originator, allowedCSROriginators)
               \/ originator \in RegisteredAEs
            THEN "granted" ELSE "none"
      [] resource.ty = "PCH" ->
            IF originator # resource.parentOriginator THEN "denied" ELSE "granted"
      [] resource.ty = "GRP" ->
            IF resource.macp = <<>> THEN "none"
            ELSE IF anyACPI(resource.macp, originator, requestedPermission, ty)
                 THEN "granted" ELSE "denied"
      [] resource.ty \in {"ACP", "ACPAnnc"} ->
            IF checkACPSelfPermission(resource, originator, requestedPermission)
            THEN "granted" ELSE "denied"
      [] resource.ty = "SUB" /\ parentResource # NoParent ->
            IF retrieveOnParent = FALSE THEN "denied" ELSE "none"
      [] OTHER -> "none"

isCseOriginator_AdminWithoutConfig(cfg, originator) ==
    \/ originator = None
    \/ originator = cseOriginator
    \/ endswithSlashCseOriginator(originator)

\* line 222: `and` binds tighter than `or`
isCseOriginator(cfg, originator) ==
    \/ originator = None
    \/ originator = cseOriginator
    \/ endswithSlashCseOriginator(originator) /\ cfg.fullAccessAdmin

\* lines 236-238
convertedOriginator(originator) ==
    IF isOwnSPRelative(originator) THEN toCSERelative(originator) ELSE originator

\* hasAccess, lines 173-425, with the place of the return next to the result
RECURSIVE hasAccess(_, _, _, _, _, _)
hasAccess(cfg, originator, resource, requestedPermission, ty, parentResource) ==
    IF ~cfg.enableACPChecks THEN Returns(TRUE, "disabled")
    ELSE IF isCseOriginator(cfg, originator) THEN Returns(TRUE, "cseOriginator")
    ELSE IF requestedPermission = NOTIFY /\ originator = cseCsi
         THEN Returns(TRUE, "notify")
    ELSE LET o == convertedOriginator(originator)
             byType == typeTests(o, requestedPermission, ty, parentResource)
             byResource ==
                resourceTypeTests(o, resource, requestedPermission, ty, parentResource,
                    IF resource.ty = "SUB" /\ parentResource # NoParent
                    THEN hasAccess(cfg, o, parentResource, RETRIEVE, None, NoParent).result
                    ELSE FALSE)
             theParent == IF parentResource # NoParent THEN parentResource ELSE ParentP1
         IN  IF requestedPermission = {} THEN Returns(FALSE, "parameters")
             ELSE IF byType # "none" THEN Returns(byType = "granted", "type")
             ELSE IF announcementTests(o, resource, requestedPermission)
                  THEN Returns(TRUE, "announcement")
             ELSE IF byResource # "none" THEN Returns(byResource = "granted", "resourceType")
             ELSE furtherPermissionChecks(o, resource, requestedPermission, ty,
                    parentResource,
                    IF resource.acpi = <<>> /\ ~resource.mayAcpi /\ resource.inheritACP
                    THEN hasAccess(cfg, o, theParent, requestedPermission, ty, NoParent).result
                    ELSE FALSE)

\* checkAcpiUpdatePermission, lines 456-468: for acpRi in targetResource.acpi,
\* TRUE on break, FALSE when the loop runs into its else
RECURSIVE acpiUpdateLoop(_, _, _)
acpiUpdateLoop(acpi, i, originator) ==
    IF i > Len(acpi) THEN FALSE
    ELSE IF ~AcpRetrievable(acpi[i]) THEN acpiUpdateLoop(acpi, i + 1, originator)
    ELSE IF checkACPSelfPermission(AcpTable[acpi[i]], originator, UPDATE) THEN TRUE
    ELSE acpiUpdateLoop(acpi, i + 1, originator)

checkAcpiUpdatePermission_AcpiAmongOthers(updatedAttributes, targetResource, originator) ==
    IF "acpi" \in updatedAttributes
    THEN IF targetResource.acpi = <<>>
         THEN IF getIdFromOriginator(originator) # targetResource.creator
              THEN "ORIGINATOR_HAS_NO_PRIVILEGE" ELSE "True"
         ELSE IF acpiUpdateLoop(targetResource.acpi, 1, getIdFromOriginator(originator))
              THEN "True" ELSE "ORIGINATOR_HAS_NO_PRIVILEGE"
    ELSE "False"

\* checkAcpiUpdatePermission, lines 428-473: the value returned or the exception raised
checkAcpiUpdatePermission(updatedAttributes, targetResource, originator) ==
    IF "acpi" \in updatedAttributes
    THEN IF Cardinality(updatedAttributes) > 1 THEN "BAD_REQUEST"
         ELSE IF targetResource.acpi = <<>>
              THEN IF getIdFromOriginator(originator) # targetResource.creator
                   THEN "ORIGINATOR_HAS_NO_PRIVILEGE" ELSE "True"
              ELSE IF acpiUpdateLoop(targetResource.acpi, 1, getIdFromOriginator(originator))
                   THEN "True" ELSE "ORIGINATOR_HAS_NO_PRIVILEGE"
    ELSE "False"

\* findXPath(request.pc, '{*}'): the attributes of the update
UpdatedAttributes == {{}, {"lbl"}, {"acpi"}, {"acpi", "lbl"}}

InitSec == secCall = NoCall

\* the functions keep no state between calls: a run looks at one call
\* a call of checkSingleACPPermission(acp, originator, requestedPermission, ty)
call_checkSingleACPPermission ==
    /\ secCall = NoCall
    /\ \E pv \in RuleLists, originator \in {"Cae", "Cother"},
          requestedPermission \in {CREATE, RETRIEVE, UPDATE}, ty \in RuleTypes :
        /\ secCall' = [op |-> "checkSingleACPPermission", pv |-> pv, originator |-> originator,
                       requestedPermission |-> requestedPermission, ty |-> ty,
                       result |-> checkSingleACPPermission(pv, originator,
                                                           requestedPermission, ty)]
        /\ UNCHANGED notSec

\* a call of hasAccess(originator, resource, requestedPermission, ty, parentResource)
call_hasAccess ==
    /\ secCall = NoCall
    /\ \E cfg \in SecConfigs, originator \in SecOriginators, resource \in SecResources,
          requestedPermission \in RequestedPermissions, ty \in RequestTypes,
          parentResource \in {NoParent, ParentP1} :
        LET r == hasAccess(cfg, originator, resource, requestedPermission, ty, parentResource)
        IN  /\ secCall' = [op |-> "hasAccess", cfg |-> cfg, originator |-> originator,
                           resource |-> resource,
                           requestedPermission |-> requestedPermission, ty |-> ty,
                           parentResource |-> parentResource,
                           result |-> r.result, stage |-> r.stage]
            /\ UNCHANGED notSec

\* a call of checkAcpiUpdatePermission(request, targetResource, originator)
call_checkAcpiUpdatePermission ==
    /\ secCall = NoCall
    /\ \E updatedAttributes \in UpdatedAttributes, acpi \in AcpiLists,
          creator \in {"Cae", "Cother"}, originator \in SecOriginators \ {None} :
        LET targetResource == [BaseResource EXCEPT !.acpi = acpi, !.creator = creator]
        IN  /\ secCall' = [op |-> "checkAcpiUpdatePermission",
                           updatedAttributes |-> updatedAttributes,
                           targetResource |-> targetResource, originator |-> originator,
                           outcome |-> checkAcpiUpdatePermission(updatedAttributes,
                                                                 targetResource, originator)]
            /\ UNCHANGED notSec

NextSec ==
    \/ call_checkSingleACPPermission
    \/ call_hasAccess
    \/ call_checkAcpiUpdatePermission

\* ==================================================================
\*  NotificationManager: which subscriptions an event notifies, blocking update
\* ==================================================================
ChildReasons == {"createDirectChild", "deleteDirectChild"}
Reasons == {"resourceUpdate", "reportOnGeneratedMissingDataPoints"} \cup ChildReasons

\* the records CSE.storage.getSubscriptionsForParent returns; an empty chty or atr
\* stands for None as well (both are tested by truth value)
SubNets == {{}, {"resourceUpdate"}, ChildReasons,
            {"resourceUpdate", "reportOnGeneratedMissingDataPoints"}, {"blockingUpdate"}}
SubDocs == [ri : {"sub1"}, net : SubNets, chty : {{}, {"CNT"}}, atr : {{}, {"lbl"}}]
SubLists == UNION {[1..n -> SubDocs] : n \in 0..MaxSubs}

\* childResource: None, a <cnt>, a <cin>, or the <sub> of the record itself
NoChild == [ri |-> None, ty |-> None]
ChildResources == {[ri |-> "cnt1", ty |-> "CNT"], [ri |-> "cin1", ty |-> "CIN"],
                   [ri |-> "sub1", ty |-> "SUB"]}

\* modifiedAttributes / updatedAttributes by their keys; the empty set is None or {}
AttributeSets == {{}, {"lbl"}, {"cnf"}, {"lbl", "cnf"}}

\* missingData: not given, below the number to report, at or above it
MissingDataStates == {"none", "below", "reached"}

\* one pass of the loop without the test for the subscription's own creation or
\* deletion (lines 168-171)
notifiedFor_OwnIncluded(sub, reason, childResource, modifiedAttributes, missingData) ==
    IF reason \notin sub.net THEN "none"
    ELSE IF reason \in ChildReasons
         THEN IF sub.chty # {} /\ childResource.ty \notin sub.chty THEN "none" ELSE "child"
    ELSE "resource"

\* checkSubscriptions, lines 172-202, one pass of `for sub in subs`: the resource
\* _handleSubscriptionNotification is called for, "none" when it is not called
notifiedFor(sub, reason, childResource, modifiedAttributes, missingData) ==
    IF childResource # NoChild /\ sub.ri = childResource.ri /\ reason \in ChildReasons
    THEN "none"
    ELSE IF reason \notin sub.net THEN "none"
    ELSE IF reason \in ChildReasons
         THEN IF sub.chty # {} /\ childResource.ty \notin sub.chty THEN "none" ELSE "child"
    ELSE IF reason = "resourceUpdate" /\ sub.atr # {} /\ modifiedAttributes # {}
         THEN IF \E k \in sub.atr : k \in modifiedAttributes THEN "resource" ELSE "none"
    ELSE IF reason = "reportOnGeneratedMissingDataPoints" /\ missingData # "none"
         THEN IF missingData = "reached" THEN "missingData" ELSE "none"
    ELSE "resource"

\* checkSubscriptions, lines 151-202: per subscription of the resource, what is notified
checkSubscriptions_each(virtual, subs, reason, childResource, modifiedAttributes, missingData) ==
    IF virtual THEN [i \in 1..Len(subs) |-> "none"]
    ELSE [i \in 1..Len(subs) |->
            notifiedFor(subs[i], reason, childResource, modifiedAttributes, missingData)]

\* the Results CSE.request.sendNotifyRequest can return: the request failed (status
\* False), or the target answered with a response status code
Answers == {[status |-> TRUE, rsc |-> "OK"],
            [status |-> TRUE, rsc |-> "TARGET_NOT_REACHABLE"],
            [status |-> TRUE, rsc |-> "OPERATION_NOT_ALLOWED"],
            [status |-> TRUE, rsc |-> "BAD_REQUEST"],
            [status |-> FALSE, rsc |-> "TARGET_NOT_REACHABLE"],
            [status |-> FALSE, rsc |-> "INTERNAL_SERVER_ERROR"]}

\* getSubscriptionsByNetChty(ri, [blockingUpdate]), lines 139-141
isBlockingUpdateSub(sub) == "blockingUpdate" \in sub.net

\* lines 227-231: the subscription is skipped, no attribute of the update is in atr
atrSkips(sub, updatedAttributes) == sub.atr # {} /\ updatedAttributes \cap sub.atr = {}

\* checkPerformBlockingUpdate, lines 214-268, from subscription i on; notified holds
\* the subscriptions a request was sent for
RECURSIVE blockingUpdateFrom(_, _, _, _, _)
blockingUpdateFrom(subs, i, updatedAttributes, answers, notified) ==
    IF i > Len(subs) THEN [status |-> TRUE, rsc |-> "OK", notified |-> notified]
    ELSE IF ~isBlockingUpdateSub(subs[i]) \/ atrSkips(subs[i], updatedAttributes)
         THEN blockingUpdateFrom(subs, i + 1, updatedAttributes, answers, notified)
    ELSE LET res == answers[i]
             sent == Append(notified, i)
         IN  IF ~res.status THEN [status |-> FALSE, rsc |-> res.rsc, notified |-> sent]
             ELSE IF res.rsc = "OK"
                  THEN blockingUpdateFrom(subs, i + 1, updatedAttributes, answers, sent)
             ELSE IF res.rsc = "TARGET_NOT_REACHABLE"
                  THEN [status |-> FALSE, rsc |-> "REMOTE_ENTITY_NOT_REACHABLE",
                        notified |-> sent]
             ELSE IF res.rsc = "OPERATION_NOT_ALLOWED"
                  THEN [status |-> FALSE, rsc |-> "OPERATION_DENIED_BY_REMOTE_ENTITY",
                        notified |-> sent]
             ELSE [status |-> FALSE, rsc |-> res.rsc, notified |-> sent]

checkPerformBlockingUpdate(subs, updatedAttributes, answers) ==
    blockingUpdateFrom(subs, 1, updatedAttributes, answers, <<>>)

InitNmc == nmCall = NoCall

\* a call of checkSubscriptions(resource, reason, childResource, modifiedAttributes, ...);
\* a child reason comes with the child resource
call_checkSubscriptions ==
    /\ nmCall = NoCall
    /\ \E virtual \in BOOLEAN, subs \in SubLists, reason \in Reasons,
          childResource \in ChildResources \cup {NoChild},
          modifiedAttributes \in AttributeSets, missingData \in MissingDataStates :
        /\ reason \in ChildReasons <=> childResource # NoChild
        /\ nmCall' = [op |-> "checkSubscriptions", virtual |-> virtual, subs |-> subs,
                      reason |-> reason, childResource |-> childResource,
                      modifiedAttributes |-> modifiedAttributes,
                      missingData |-> missingData,
                      notified |-> checkSubscriptions_each(virtual, subs, reason,
                                        childResource, modifiedAttributes, missingData)]
        /\ UNCHANGED notNmc

\* a call of checkPerformBlockingUpdate(resource, originator, updatedAttributes)
call_checkPerformBlockingUpdate ==
    /\ nmCall = NoCall
    /\ \E subs \in SubLists, updatedAttributes \in AttributeSets \ {{}} :
        \E answers \in [1..Len(subs) -> Answers] :
            /\ nmCall' = [op |-> "checkPerformBlockingUpdate", subs |-> subs,
                          updatedAttributes |-> updatedAttributes, answers |-> answers,
                          result |-> checkPerformBlockingUpdate(subs, updatedAttributes,
                                                                answers)]
            /\ UNCHANGED notNmc

NextNmc ==
    \/ call_checkSubscriptions
    \/ call_checkPerformBlockingUpdate

\* the subscriptions of one parent, each with an ri of its own, among them <sub>
\* resources that are children of the parent themselves
SiblingRis == {"sub1", "sub2", "sub3"}
SiblingDocs == [ri : SiblingRis, net : {ChildReasons, {"createDirectChild"}, {"resourceUpdate"}},
                chty : {{}, {"SUB"}, {"CNT"}}, atr : {{}}]
SiblingLists ==
    UNION {{l \in [1..n -> SiblingDocs] : \A i, j \in 1..n : l[i].ri = l[j].ri => i = j} :
              n \in 0..MaxSubs}

\* a call of checkSubscriptions for a parent with several subscriptions: a child is
\* created or deleted, or the parent is updated
call_checkSubscriptionsOfParent ==
    /\ nmCall = NoCall
    /\ \E virtual \in BOOLEAN, subs \in SiblingLists,
          reason \in ChildReasons \cup {"resourceUpdate"},
          childResource \in ChildResources \cup {NoChild} :
        /\ reason \in ChildReasons <=> childResource # NoChild
        /\ nmCall' = [op |-> "checkSubscriptions", virtual |-> virtual, subs |-> subs,
                      reason |-> reason, childResource |-> childResource,
                      modifiedAttributes |-> {}, missingData |-> "none",
                      notified |-> checkSubscriptions_each(virtual, subs, reason,
                                        childResource, {}, "none")]
        /\ UNCHANGED notNmc

NextNmcOfParent ==
    \/ call_checkSubscriptionsOfParent

\* ==================================================================
\*  EventManager: events and their handlers
\* ==================================================================
EventHandlers == {"h1", "h2"}
EventArgs == {"x", "y"}

NoEvent == [exists |-> FALSE, runInBackground |-> TRUE, handlers |-> <<>>]
NoRun == [active |-> FALSE, background |-> FALSE, i |-> 0, args |-> None, raising |-> {},
          blocking |-> {}, blocked |-> FALSE]
NoLog == [raised |-> FALSE, args |-> None, atCall |-> <<>>, invoked |-> <<>>,
          finished |-> FALSE, changed |-> FALSE, propagated |-> FALSE,
          background |-> FALSE, returned |-> FALSE]

\* list.remove(func): the first occurrence leaves the list
RECURSIVE removeFirst(_, _)
removeFirst(s, x) ==
    IF s = <<>> THEN <<>>
    ELSE IF Head(s) = x THEN Tail(s)
    ELSE <<Head(s)>> \o removeFirst(Tail(s), x)

\* EventManager.__init__, line 85
InitEvt ==
    /\ evRunning = TRUE
    /\ evt = NoEvent
    /\ evRun = NoRun
    /\ evLog = NoLog

\* a change of the handler list while _callThread iterates over it
Changed == [evLog EXCEPT !.changed = @ \/ evRun.active]

\* addEvent, lines 94-99
addEvent(runInBackground) ==
    /\ ~evt.exists
    /\ ~evRun.active
    /\ evt' = [exists |-> TRUE, runInBackground |-> runInBackground, handlers |-> <<>>]
    /\ UNCHANGED <<evRunning, evRun, evLog, notEvt>>

\* removeEvent, lines 102-106
removeEvent ==
    /\ evt.exists
    /\ evt' = [evt EXCEPT !.exists = FALSE]
    /\ UNCHANGED <<evRunning, evRun, evLog, notEvt>>

\* addHandler, lines 124-127: e.append(func)
addHandler(func) ==
    /\ evt.exists
    /\ Len(evt.handlers) < MaxHandlers
    /\ evt' = [evt EXCEPT !.handlers = Append(@, func)]
    /\ evLog' = Changed
    /\ UNCHANGED <<evRunning, evRun, notEvt>>

\* removeHandler, lines 130-133: e.remove(func)
removeHandler(func) ==
    /\ evt.exists
    /\ func \in Range(evt.handlers)
    /\ evt' = [evt EXCEPT !.handlers = removeFirst(@, func)]
    /\ evLog' = Changed
    /\ UNCHANGED <<evRunning, evRun, notEvt>>

\* shutdown, lines 87-90: _running = False, removeAllEvents()
shutdown ==
    /\ evRunning
    /\ evRunning' = FALSE
    /\ evt' = [evt EXCEPT !.exists = FALSE]
    /\ UNCHANGED <<evRun, evLog, notEvt>>

\* Event.__call__, lines 53-71: nothing when the manager is not running, else
\* _callThread starts, in a new thread or in the caller. raising holds the handlers
\* that raise an exception when they are called, blocking those that block for a
\* while. With runInBackground the call returns after thread.start() (lines 65-68).
Event_call(args, raising, blocking) ==
    /\ evt.exists
    /\ ~evRun.active
    /\ IF ~evRunning
       THEN UNCHANGED <<evRun, evLog>>
       ELSE /\ evRun' = [active |-> TRUE, background |-> evt.runInBackground, i |-> 1,
                         args |-> args, raising |-> raising, blocking |-> blocking,
                         blocked |-> FALSE]
            /\ evLog' = [raised |-> TRUE, args |-> args, atCall |-> evt.handlers,
                         invoked |-> <<>>, finished |-> FALSE, changed |-> FALSE,
                         propagated |-> FALSE, background |-> evt.runInBackground,
                         returned |-> evt.runInBackground]
    /\ UNCHANGED <<evRunning, evt, notEvt>>

\* _callThread, lines 58-59, one pass of `for function in self: function(*args)`.
\* An exception of the function leaves the loop and _callThread: in the caller of
\* the event when the handlers run there, at the top of the thread when not.
callThread ==
    /\ evRun.active
    /\ ~evRun.blocked
    /\ IF evRun.i > Len(evt.handlers)
       THEN /\ evRun' = NoRun
            /\ evLog' = [evLog EXCEPT !.finished = TRUE, !.returned = TRUE]
       ELSE LET function == evt.handlers[evRun.i]
                called == [evLog EXCEPT !.invoked = Append(@, <<function, evRun.args>>)]
            IN  IF function \in evRun.raising
                THEN /\ evRun' = NoRun
                     /\ evLog' = [called EXCEPT !.finished = TRUE, !.returned = TRUE,
                                                !.propagated = ~evRun.background]
                ELSE IF function \in evRun.blocking
                THEN /\ evRun' = [evRun EXCEPT !.blocked = TRUE]
                     /\ evLog' = called
                ELSE /\ evRun' = [evRun EXCEPT !.i = @ + 1]
                     /\ evLog' = called
    /\ UNCHANGED <<evRunning, evt, notEvt>>

\* the function that blocked returns: `for function in self` goes on (line 58)
handlerReturns ==
    /\ evRun.active
    /\ evRun.blocked
    /\ evRun' = [evRun EXCEPT !.blocked = FALSE, !.i = @ + 1]
    /\ UNCHANGED <<evRunning, evt, evLog, notEvt>>

NextEvt ==
    \/ \E runInBackground \in BOOLEAN : addEvent(runInBackground)
    \/ removeEvent
    \/ \E func \in EventHandlers : addHandler(func)
    \/ \E func \in EventHandlers : removeHandler(func)
    \/ shutdown
    \/ \E args \in EventArgs, raising \in SUBSET EventHandlers :
        \E blocking \in SUBSET (EventHandlers \ raising) : Event_call(args, raising, blocking)
    \/ callThread
    \/ handlerReturns

\* ==================================================================
\*  Storage, the documents: create, update, delete and retrieve called one after the
\*  other, and the expiration sweep (Storage.py, 76-199, 338-353, 428-538)
\* ==================================================================
MaxTime == 2

\* time stamps (et, the sweep's now); they are compared with <
Times == 1..(MaxTime + 1)

\* the attributes of a document besides ri and srn, and their values; a resource
\* attribute set to None is Null
DocAttributes == {"et", "lbl"}
DocValues == [et |-> 1..MaxTime, lbl |-> {1}]
Null == 0

DocRis == {"r1", "r2"}
SrnOf == [ri \in DocRis |-> IF ri = "r1" THEN "s1" ELSE "s2"]
DocSrns == {"s1", "s2", "s3"}

\* resource.json without ri and srn, as stored and as passed to updateResource
JsonsOver(values) ==
    UNION {{f \in [D -> UNION {values[k] : k \in D}] : \A k \in D : f[k] \in values[k]} :
           D \in SUBSET DocAttributes}
StoredJsons == JsonsOver(DocValues)
UpdateJsons == JsonsOver([k \in DocAttributes |-> DocValues[k] \cup {Null}])

\* dict.update(fields) of Python, what TinyDB's update(fields, cond) does to a document
dictUpdate(d, fields) ==
    [k \in DOMAIN d \cup DOMAIN fields |-> IF k \in DOMAIN fields THEN fields[k] ELSE d[k]]

\* del d[k], what TinyDB's delete(k) operation does to a document
dictDelete(d, k) == [x \in DOMAIN d \ {k} |-> d[x]]

\* Table.update(fields, Query().ri == ri)
tinydbUpdate(table, fields, ri) ==
    [i \in 1..Len(table) |->
        IF table[i].ri = ri THEN [table[i] EXCEPT !.json = dictUpdate(@, fields)]
        ELSE table[i]]

\* Table.update(delete(k), Query().ri == ri)
tinydbDelete(table, k, ri) ==
    [i \in 1..Len(table) |->
        IF table[i].ri = ri THEN [table[i] EXCEPT !.json = dictDelete(@, k)]
        ELSE table[i]]

DocsWithRi(table, ri) == SelectSeq(table, LAMBDA d : d.ri = ri)
DocsWithoutRi(table, ri) == SelectSeq(table, LAMBDA d : d.ri # ri)
DocsWithSrn(table, srn) == SelectSeq(table, LAMBDA d : d.srn = srn)

\* TinyDBBinding.updateResource without lines 445-448: the None attributes stay stored
nullAttributesLoop_NothingRemoved(table, json, ri, ks) == [table |-> table, json |-> json]

\* TinyDBBinding.updateResource, lines 445-448: the loop over the keys of resource.json
\* that removes every None attribute from the stored document and from resource.json
RECURSIVE nullAttributesLoop(_, _, _, _)
nullAttributesLoop(table, json, ri, ks) ==
    IF ks = {} THEN [table |-> table, json |-> json]
    ELSE LET k == CHOOSE x \in ks : TRUE
         IN  IF json[k] = Null
             THEN nullAttributesLoop(tinydbDelete(table, k, ri), dictDelete(json, k), ri, ks \ {k})
             ELSE nullAttributesLoop(table, json, ri, ks \ {k})

\* TinyDBBinding.updateResource, lines 439-449: the table afterwards and the resource
\* returned
db_updateResource(table, ri, json) ==
    nullAttributesLoop(tinydbUpdate(table, json, ri), json, ri, DOMAIN json)

\* TinyDBBinding.upsertResource, lines 433-436, and insertIdentifier, 519-524: TinyDB's
\* upsert updates the documents found and inserts when there is none
tinydbUpsert(table, d) ==
    IF DocsWithRi(table, d.ri) # <<>>
    THEN [i \in 1..Len(table) |-> IF table[i].ri = d.ri THEN d ELSE table[i]]
    ELSE Append(table, d)

tinydbUpsertResource(table, d) ==
    IF DocsWithRi(table, d.ri) # <<>>
    THEN [i \in 1..Len(table) |->
            IF table[i].ri = d.ri
            THEN [table[i] EXCEPT !.srn = d.srn, !.json = dictUpdate(@, d.json)]
            ELSE table[i]]
    ELSE Append(table, d)

\* TinyDBBinding.searchResources, lines 457-476
doc_searchResources(t, ri, srn) ==
    IF srn # None
    THEN LET identifiers == DocsWithSrn(t.Identifiers, srn)
         IN  IF Len(identifiers) = 1 THEN DocsWithRi(t.Resources, identifiers[1].ri)
             ELSE <<>>
    ELSE DocsWithRi(t.Resources, ri)

\* Storage.hasResource, lines 104-106, TinyDBBinding.hasResource, 484-498
doc_hasResource(t, ri, srn) ==
    \/ DocsWithRi(t.Resources, ri) # <<>>
    \/ /\ Len(DocsWithSrn(t.Identifiers, srn)) = 1
       /\ DocsWithRi(t.Resources, DocsWithSrn(t.Identifiers, srn)[1].ri) # <<>>

\* Storage.retrieveResource, lines 109-134: the result code and the resource
doc_retrieveResource(t, ri, srn) ==
    LET resources == doc_searchResources(t, ri, srn)
    IN  IF Len(resources) = 1 THEN [rsc |-> "rcOK", resource |-> resources]
        ELSE IF Len(resources) = 0 THEN [rsc |-> "rcNotFound", resource |-> <<>>]
        ELSE [rsc |-> "rcInternalServerError", resource |-> <<>>]

\* Storage.deleteResource without line 197: the document stays in the Resource table
doc_deleteResource_IdentifierOnly(t, ri) ==
    [Resources |-> t.Resources, Identifiers |-> DocsWithoutRi(t.Identifiers, ri)]

\* Storage.deleteResource, lines 192-199: the tables afterwards
doc_deleteResource(t, ri) ==
    [Resources |-> DocsWithoutRi(t.Resources, ri),
     Identifiers |-> DocsWithoutRi(t.Identifiers, ri)]

EmptyLog == [op |-> "none", ri |-> None, srn |-> None, json |-> <<>>, rsc |-> "none",
             before |-> <<>>, returned |-> <<>>, changed |-> FALSE,
             now |-> 0, handed |-> <<>>, result |-> FALSE, gone |-> {}]

\* the ris that were stored, have been removed and have not been stored again, once
\* the Resource table is `after`
GoneAfter(after) ==
    {ri \in DocRis : /\ DocsWithRi(after, ri) = <<>>
                     /\ (ri \in docLog.gone \/ DocsWithRi(docTab.Resources, ri) # <<>>)}

InitDoc ==
    /\ docTab = [Resources |-> <<>>, Identifiers |-> <<>>]
    /\ docLog = EmptyLog

\* Storage.createResource, lines 76-101
Storage_createResource(ri, srn, json, overwrite) ==
    LET d == [ri |-> ri, srn |-> srn, json |-> json]
        id == [ri |-> ri, srn |-> srn]
        exists == ~overwrite /\ doc_hasResource(docTab, ri, srn)
        after == IF exists THEN docTab
                 ELSE [Resources |-> IF overwrite THEN tinydbUpsertResource(docTab.Resources, d)
                                     ELSE Append(docTab.Resources, d),
                       Identifiers |-> tinydbUpsert(docTab.Identifiers, id)]
    IN  /\ docTab' = after
        /\ docLog' = [EmptyLog EXCEPT !.op = "createResource", !.ri = ri, !.srn = srn,
                          !.json = json, !.before = docTab.Resources,
                          !.rsc = IF exists THEN "rcAlreadyExists" ELSE "rcCreated",
                          !.changed = (after # docTab),
                          !.gone = GoneAfter(after.Resources)]
        /\ UNCHANGED notDoc

\* Storage.updateResource, lines 182-189
Storage_updateResource(ri, json) ==
    LET u == db_updateResource(docTab.Resources, ri, json)
    IN  /\ docTab' = [docTab EXCEPT !.Resources = u.table]
        /\ docLog' = [EmptyLog EXCEPT !.op = "updateResource", !.ri = ri, !.json = json,
                          !.before = docTab.Resources, !.returned = <<u.json>>,
                          !.rsc = "rcUpdated", !.changed = (u.table # docTab.Resources),
                          !.gone = GoneAfter(u.table)]
        /\ UNCHANGED notDoc

\* Storage.deleteResource, lines 192-199
Storage_deleteResource(ri) ==
    /\ docTab' = doc_deleteResource(docTab, ri)
    /\ docLog' = [EmptyLog EXCEPT !.op = "deleteResource", !.ri = ri,
                      !.before = docTab.Resources, !.rsc = "rcDeleted",
                      !.changed = (doc_deleteResource(docTab, ri) # docTab),
                      !.gone = GoneAfter(doc_deleteResource(docTab, ri).Resources)]
    /\ UNCHANGED notDoc

\* the DELETE request of the Dispatcher for the resource addressed by ri: resolve the
\* target with Storage.retrieveResource, answer with its error when it is not found,
\* delete it with Storage.deleteResource otherwise
DELETE(ri) ==
    LET target == doc_retrieveResource(docTab, ri, None)
        after == IF target.rsc = "rcOK" THEN doc_deleteResource(docTab, ri) ELSE docTab
    IN  /\ docTab' = after
        /\ docLog' = [EmptyLog EXCEPT !.op = "DELETE", !.ri = ri,
                          !.before = docTab.Resources,
                          !.rsc = IF target.rsc = "rcOK" THEN "rcDeleted" ELSE target.rsc,
                          !.changed = (after # docTab),
                          !.gone = GoneAfter(after.Resources)]
        /\ UNCHANGED notDoc

\* Storage.retrieveResource, lines 109-134, by ri (srn = None) or by srn
Storage_retrieveResource(ri, srn) ==
    LET r == doc_retrieveResource(docTab, ri, srn)
    IN  /\ docLog' = [EmptyLog EXCEPT !.op = "retrieveResource", !.ri = ri, !.srn = srn,
                          !.before = docTab.Resources, !.rsc = r.rsc,
                          !.returned = r.resource, !.gone = docLog.gone]
        /\ UNCHANGED <<docTab, notDoc>>

\* the filter of line 341 with <= in the place of <
isExpired_AtOrBefore(d, now) ==
    "et" \in DOMAIN d.json /\ d.json["et"] # Null /\ d.json["et"] <= now

\* the filter of line 341
isExpired(d, now) == "et" \in DOMAIN d.json /\ d.json["et"] # Null /\ d.json["et"] < now

\* CSE.dispatcher.deleteResource(r, withDeregistration=True): the Dispatcher returns a
\* typed result; it deletes the resource through Storage.deleteResource, or, for the
\* ris of refused, returns an error and deletes nothing
dispatcher_deleteResource(t, r, refused) ==
    IF r.ri \in refused THEN t ELSE doc_deleteResource(t, r.ri)

\* the loop of lines 342-345 over the documents of rs, one after the other
RECURSIVE expirationLoop(_, _, _)
expirationLoop(t, rs, refused) ==
    IF rs = <<>> THEN t
    ELSE expirationLoop(dispatcher_deleteResource(t, Head(rs), refused), Tail(rs), refused)

\* Storage.expirationDBWorker, lines 338-353
expirationDBWorker(now, refused) ==
    LET rs == SelectSeq(docTab.Resources, LAMBDA d : isExpired(d, now))
    IN  /\ docTab' = expirationLoop(docTab, rs, refused)
        /\ docLog' = [EmptyLog EXCEPT !.op = "expirationDBWorker", !.now = now,
                          !.before = docTab.Resources, !.handed = rs, !.result = TRUE,
                          !.gone = GoneAfter(expirationLoop(docTab, rs, refused).Resources)]
        /\ UNCHANGED notDoc

NextDoc ==
    \/ \E ri \in DocRis, json \in StoredJsons, overwrite \in BOOLEAN :
            Storage_createResource(ri, SrnOf[ri], json, overwrite)
    \/ \E ri \in DocRis, json \in UpdateJsons : Storage_updateResource(ri, json)
    \/ \E ri \in DocRis : Storage_deleteResource(ri)
    \/ \E ri \in DocRis : DELETE(ri)
    \/ \E ri \in DocRis : Storage_retrieveResource(ri, None)
    \/ \E srn \in DocSrns : Storage_retrieveResource(None, srn)
    \/ \E now \in Times, refused \in SUBSET DocRis : expirationDBWorker(now, refused)

\* ==================================================================
\*  AnnouncementManager: announce, de-announce, update of announcements
\*  (AnnouncementManager.py, 120-445)
\* ==================================================================
MaxAt == 2

\* the peer CSEs, by csi
AnnPeers == {"/id-a", "/id-b"}

\* the ri the peer gives to an announced resource it creates
RemoteRI == "ri1"

\* the CSEBase and a <cnt> below it
AnnIds == {"cse", "x"}
AnnTy == [id \in AnnIds |-> IF id = "cse" THEN "CSEBase" ELSE "CNT"]
AnnPi == [id \in AnnIds |-> "cse"]
StorageOrder == <<"cse", "x">>

\* an entry of `at` is the string csi (ri is None) or the string csi + '/' + ri; an
\* entry of __announcedTo__ is the pair (csi, ri)
AtEntries == [csi : AnnPeers, ri : {None, RemoteRI}] \cup {[csi |-> cseCsi, ri |-> None]}

AtLists ==
    {s \in UNION {[1..n -> AtEntries] : n \in 0..MaxAt} :
        \A i, j \in 1..Len(s) : s[i].csi = s[j].csi => i = j}

NoAnnouncement == [at |-> <<>>, ato |-> <<>>]

\* what the peers answer to the CREATE of an announced resource, the same answer from
\* every peer during one operation
CreateReplies == {[csi \in AnnPeers |-> rsc] : rsc \in {"created", "alreadyExists", "error"}}

\* x.startswith(csi + '/')
startswithCsiSlash(x, csi) == x.csi = csi /\ x.ri # None

\* list.remove(x): the first element equal to x goes
listRemove(s, x) ==
    IF x \notin Range(s) THEN s
    ELSE RemoveAt(s, CHOOSE i \in 1..Len(s) : s[i] = x /\ \A j \in 1..(i - 1) : s[j] # x)

\* Utils.resourceFromCSI(csi).resource: the local <csr> of the peer, if there is one
csrFound(csrs, csi) == csi \in AnnPeers /\ csrs[csi] # "none"

\* _removeAnnouncementFromResource, lines 384-389: the loop over the list that
\* getAnnouncedTo() returns, with the removals made in that list while it is iterated
RECURSIVE removeLoop(_, _, _, _)
removeLoop(ats, i, csi, remoteRI) ==
    IF i > Len(ats) THEN [ats |-> ats, remoteRI |-> remoteRI]
    ELSE IF ats[i].csi = csi
         THEN removeLoop(listRemove(ats, ats[i]), i + 1, csi, ats[i].ri)
         ELSE removeLoop(ats, i + 1, csi, remoteRI)

\* AnnouncementManager._removeAnnouncementFromResource, lines 379-396
removeAnnouncementFromResource(resource, csi) ==
    LET l == removeLoop(resource.ato, 1, csi, None)
        atCsi == [csi |-> csi, ri |-> l.remoteRI]
    IN  [ato |-> l.ats,
         at |-> IF l.remoteRI # None /\ atCsi \in Range(resource.at)
                THEN listRemove(resource.at, atCsi) ELSE resource.at]

\* the same for the at entry of announceResource (lines 142, 146): only an entry that
\* is a plain csi can be equal to the csi of an __announcedTo__ pair
removeAnnouncementOfAt(resource, at) ==
    IF at.ri = None THEN removeAnnouncementFromResource(resource, at.csi) ELSE resource

\* AnnouncementManager._isResourceAnnouncedTo, lines 399-403
isResourceAnnouncedTo(resource, csi) == \E i \in 1..Len(resource.ato) : resource.ato[i].csi = csi

\* AnnounceableResource.addAnnouncementToResource(remoteRI, csi): the pair is appended to
\* __announcedTo__ and an at entry that is the plain csi becomes csi/remoteRI
addAnnouncementToResource(resource, remoteRI, csi) ==
    [ato |-> Append(resource.ato, [csi |-> csi, ri |-> remoteRI]),
     at |-> [i \in 1..Len(resource.at) |->
                IF resource.at[i] = [csi |-> csi, ri |-> None]
                THEN [csi |-> csi, ri |-> remoteRI] ELSE resource.at[i]]]

Sent(w, op, id, csi) == [w EXCEPT !.sent = Append(@, [op |-> op, id |-> id, csi |-> csi])]

\* AnnouncementManager.announceResourceToCSR, lines 153-220; w is the resources and the
\* requests sent so far, the result the new w and Result.status
RECURSIVE announceResourceToCSR(_, _, _, _)
announceResourceToCSR(w, id, csi, reply) ==
    LET resource == w.r[id]
        sendCreateRequest(v) ==
            LET s == Sent(v, "CREATE", id, csi)
            IN  IF reply[csi] = "created"
                THEN [w |-> [s EXCEPT !.r[id] = addAnnouncementToResource(@, RemoteRI, csi)],
                      status |-> TRUE]
                ELSE [w |-> s, status |-> reply[csi] = "alreadyExists"]
    IN  IF isResourceAnnouncedTo(resource, csi) THEN [w |-> w, status |-> TRUE]
        ELSE IF AnnTy[id] = "CSEBase" THEN sendCreateRequest(w)
        ELSE IF resource.at = <<>> THEN [w |-> w, status |-> TRUE]
        ELSE IF ~isResourceAnnouncedTo(w.r[AnnPi[id]], csi)
        THEN IF AnnTy[id] \in {"CIN", "FCI", "TSI"} THEN [w |-> w, status |-> FALSE]
             ELSE sendCreateRequest(IF ~isResourceAnnouncedTo(w.r["cse"], csi)
                                    THEN announceResourceToCSR(w, "cse", csi, reply).w
                                    ELSE w)
        ELSE sendCreateRequest(w)

\* AnnouncementManager.announceResource, lines 135-150: the loop over resource.at
RECURSIVE announceResourceLoop(_, _, _, _, _)
announceResourceLoop(w, id, i, csrs, reply) ==
    IF i > Len(w.r[id].at) THEN [w |-> w, status |-> TRUE]
    ELSE LET at == w.r[id].at[i]
         IN  IF at.csi = cseCsi \/ ~(at.ri = None /\ csrFound(csrs, at.csi))
             THEN announceResourceLoop([w EXCEPT !.r[id] = removeAnnouncementOfAt(@, at)],
                                       id, i + 1, csrs, reply)
             ELSE LET res == announceResourceToCSR(w, id, at.csi, reply)
                  IN  IF ~res.status THEN res
                      ELSE announceResourceLoop(res.w, id, i + 1, csrs, reply)

announceResource(w, id, csrs, reply) == announceResourceLoop(w, id, 1, csrs, reply)

\* the filter of searchAnnounceableResourcesForCSI, lines 436-443
announcedFilter(r, csi, isAnnounced) ==
    IF r.at # <<>> /\ \E i \in 1..Len(r.at) : startswithCsiSlash(r.at[i], csi)
    THEN IF r.ato # <<>>
         THEN IF \E i \in 1..Len(r.ato) : csi = r.ato[i].csi THEN isAnnounced
              ELSE ~isAnnounced
         ELSE FALSE
    ELSE FALSE

\* AnnouncementManager.searchAnnounceableResourcesForCSI, lines 430-445
searchAnnounceableResourcesForCSI(r, csi, isAnnounced) ==
    SelectSeq(StorageOrder, LAMBDA id : announcedFilter(r[id], csi, isAnnounced))

\* AnnouncementManager.checkResourcesForAnnouncement, lines 120-132
RECURSIVE checkAnnouncementLoop(_, _, _, _)
checkAnnouncementLoop(w, resources, csrs, reply) ==
    IF resources = <<>> THEN w
    ELSE LET res == announceResource(w, Head(resources), csrs, reply)
         IN  IF ~res.status THEN res.w
             ELSE checkAnnouncementLoop(res.w, Tail(resources), csrs, reply)

checkResourcesForAnnouncement(w, csi, csrs, reply) ==
    checkAnnouncementLoop(w, searchAnnounceableResourcesForCSI(w.r, csi, FALSE), csrs, reply)

\* AnnouncementManager.deAnnounceResourceFromCSR, lines 254-281
deAnnounceResourceFromCSR(w, id, csi, csrs) ==
    IF csrs[csi] = "nopoa" THEN w
    ELSE [Sent(w, "DELETE", id, csi) EXCEPT !.r[id] = removeAnnouncementFromResource(@, csi)]

\* AnnouncementManager.deAnnounceResource, lines 242-251: the loop over the list that
\* getAnnouncedTo() returns
RECURSIVE deAnnounceLoop(_, _, _, _)
deAnnounceLoop(w, id, i, csrs) ==
    IF i > Len(w.r[id].ato) THEN w
    ELSE LET csi == w.r[id].ato[i].csi
         IN  deAnnounceLoop(IF ~csrFound(csrs, csi)
                            THEN [w EXCEPT !.r[id] = removeAnnouncementFromResource(@, csi)]
                            ELSE deAnnounceResourceFromCSR(w, id, csi, csrs),
                            id, i + 1, csrs)

\* AnnouncementManager.checkResourcesForUnAnnouncement, lines 227-239
RECURSIVE unAnnouncementLoop(_, _, _, _)
unAnnouncementLoop(w, resources, csi, csrs) ==
    IF resources = <<>> THEN w
    ELSE unAnnouncementLoop(
            [deAnnounceLoop(w, Head(resources), 1, csrs)
                EXCEPT !.r[Head(resources)] = removeAnnouncementFromResource(@, csi)],
            Tail(resources), csi, csrs)

checkResourcesForUnAnnouncement(w, csi, csrs) ==
    unAnnouncementLoop(w, searchAnnounceableResourcesForCSI(w.r, csi, TRUE), csi, csrs)

\* announceUpdatedResource, lines 299-306: the csi of every at entry, the own CSE left out
CSIsFromAnnounceTo(at) ==
    LET others == SelectSeq(at, LAMBDA x : x.csi # cseCsi)
    IN  [i \in 1..Len(others) |-> others[i].csi]

\* AnnouncementManager.updateResourceOnCSR, lines 333-358
updateResourceOnCSR(w, id, csi, csrs) ==
    IF csrs[csi] = "nopoa" THEN w ELSE Sent(w, "UPDATE", id, csi)

\* announceUpdatedResource, lines 308-323: the loop over the list that getAnnouncedTo()
\* returns; announcedCSIs as a set
RECURSIVE announcedToLoop(_, _, _, _, _, _)
announcedToLoop(w, id, i, csis, announcedCSIs, csrs) ==
    IF i > Len(w.r[id].ato) THEN [w |-> w, announcedCSIs |-> announcedCSIs]
    ELSE LET csi == w.r[id].ato[i].csi
         IN  announcedToLoop(
                IF ~csrFound(csrs, csi)
                THEN [w EXCEPT !.r[id] = removeAnnouncementFromResource(@, csi)]
                ELSE IF csi \notin Range(csis) THEN deAnnounceResourceFromCSR(w, id, csi, csrs)
                ELSE updateResourceOnCSR(w, id, csi, csrs),
                id, i + 1, csis, announcedCSIs \cup {csi}, csrs)

\* announceUpdatedResource, lines 325-330
RECURSIVE notAnnouncedLoop(_, _, _, _, _, _)
notAnnouncedLoop(w, id, csis, announcedCSIs, csrs, reply) ==
    IF csis = <<>> THEN w
    ELSE notAnnouncedLoop(
            IF Head(csis) \notin announcedCSIs /\ csrFound(csrs, Head(csis))
            THEN announceResourceToCSR(w, id, Head(csis), reply).w ELSE w,
            id, Tail(csis), announcedCSIs, csrs, reply)

\* AnnouncementManager.announceUpdatedResource, lines 289-330
announceUpdatedResource(w, id, csrs, reply) ==
    LET csis == CSIsFromAnnounceTo(w.r[id].at)
        l == announcedToLoop(w, id, 1, csis, {}, csrs)
    IN  notAnnouncedLoop(l.w, id, csis, l.announcedCSIs, csrs, reply)

NoAnnLog == [op |-> "none", csis |-> {}, id |-> None, before |-> NoAnnouncement,
             csrs |-> [csi \in AnnPeers |-> "none"], sent |-> <<>>]

\* the resource has been created, with at, while no peer was registered
InitAnn ==
    /\ \E at \in AtLists :
        /\ \A i \in 1..Len(at) : at[i].ri = None
        /\ annRes = [id \in AnnIds |-> IF id = "x" THEN [at |-> at, ato |-> <<>>]
                                       ELSE NoAnnouncement]
    /\ annCsrs = [csi \in AnnPeers |-> "none"]
    /\ annLog = NoAnnLog

World == [r |-> annRes, sent |-> <<>>]

\* handleRemoteCSEHasRegistered, lines 98-102 (and handleRegisteredToRemoteCSE, 84-88):
\* the <csr> of the peer exists when the event is raised
handleRemoteCSEHasRegistered(csi, poa, reply) ==
    /\ annCsrs[csi] = "none"
    /\ LET csrs == [annCsrs EXCEPT ![csi] = poa]
           w == checkResourcesForAnnouncement(World, csi, csrs, reply)
       IN  /\ annCsrs' = csrs
           /\ annRes' = w.r
           /\ annLog' = [NoAnnLog EXCEPT !.op = "handleRemoteCSEHasRegistered", !.csis = {csi},
                             !.id = "x", !.before = annRes["x"], !.csrs = csrs,
                             !.sent = w.sent]
    /\ UNCHANGED notAnn

\* handleRemoteCSEHasDeregistered, lines 105-108 (and handleDeRegisteredFromRemoteCSE,
\* 91-95); the <csr> may be gone already when the handler runs
handleRemoteCSEHasDeregistered(csi, gone) ==
    /\ annCsrs[csi] # "none"
    /\ LET csrs == IF gone THEN [annCsrs EXCEPT ![csi] = "none"] ELSE annCsrs
           w == checkResourcesForUnAnnouncement(World, csi, csrs)
       IN  /\ annCsrs' = [annCsrs EXCEPT ![csi] = "none"]
           /\ annRes' = w.r
           /\ annLog' = [NoAnnLog EXCEPT !.op = "handleRemoteCSEHasDeregistered",
                             !.csis = {csi}, !.id = "x", !.before = annRes["x"],
                             !.csrs = csrs, !.sent = w.sent]
    /\ UNCHANGED notAnn

\* AnnouncementManager.announcementMonitorWorker, lines 68-74
RECURSIVE monitorLoop(_, _, _, _)
monitorLoop(w, csis, csrs, reply) ==
    IF csis = <<>> THEN w
    ELSE monitorLoop(checkResourcesForAnnouncement(w, Head(csis), csrs, reply),
                     Tail(csis), csrs, reply)

announcementMonitorWorker(reply) ==
    LET csis == SelectSeq(<<"/id-a", "/id-b">>, LAMBDA csi : annCsrs[csi] # "none")
        w == monitorLoop(World, csis, annCsrs, reply)
    IN  /\ csis # <<>>
        /\ annRes' = w.r
        /\ annLog' = [NoAnnLog EXCEPT !.op = "announcementMonitorWorker",
                          !.csis = Range(csis), !.id = "x", !.before = annRes["x"],
                          !.csrs = annCsrs, !.sent = w.sent]
        /\ UNCHANGED <<annCsrs, notAnn>>

\* the activation of the resource: AnnounceableResource calls announceResource
resourceActivated(reply) ==
    LET w == announceResource(World, "x", annCsrs, reply).w
    IN  /\ annRes' = w.r
        /\ annLog' = [NoAnnLog EXCEPT !.op = "announceResource", !.id = "x",
                          !.before = annRes["x"], !.csrs = annCsrs, !.sent = w.sent]
        /\ UNCHANGED <<annCsrs, notAnn>>

\* an UPDATE of the resource's at: the entries of the peers it is announced to are
\* kept as they are or dropped, entries of other CSEs are added; AnnounceableResource
\* then calls announceUpdatedResource
resourceUpdated(at, reply) ==
    /\ \A i \in 1..Len(at) : \A j \in 1..Len(annRes["x"].ato) :
            at[i].csi = annRes["x"].ato[j].csi => at[i].ri = annRes["x"].ato[j].ri
    /\ LET updated == [annRes EXCEPT !["x"].at = at]
           w == announceUpdatedResource([r |-> updated, sent |-> <<>>], "x", annCsrs, reply)
       IN  /\ annRes' = w.r
           /\ annLog' = [NoAnnLog EXCEPT !.op = "announceUpdatedResource", !.id = "x",
                             !.before = updated["x"], !.csrs = annCsrs, !.sent = w.sent]
    /\ UNCHANGED <<annCsrs, notAnn>>

NextAnn ==
    \/ \E csi \in AnnPeers, poa \in {"poa", "nopoa"}, reply \in CreateReplies :
            handleRemoteCSEHasRegistered(csi, poa, reply)
    \/ \E csi \in AnnPeers, gone \in BOOLEAN : handleRemoteCSEHasDeregistered(csi, gone)
    \/ \E reply \in CreateReplies : announcementMonitorWorker(reply)
    \/ \E reply \in CreateReplies : resourceActivated(reply)
    \/ \E at \in AtLists, reply \in CreateReplies : resourceUpdated(at, reply)

\* ==================================================================
\*  timeSeries: the limits on the <tsi> children, and the virtual <oldest> child
\*  (TS.py, 114-216, 265-268; TS_OL.py, 28-59)
\* ==================================================================
MaxInstances == 3
MaxLimit == 2
MaxCt == 2

\* the content sizes of the <tsi> that are added
ContentSizes == {1, 2}

\* mni or mbs is None (lines 181 and 199)
NoLimit == -1
Limits == {NoLimit} \cup 0..MaxLimit

\* a <tsi>: its creation time and its content size
Instances == [ct : 0..MaxCt, cs : ContentSizes]

NoTs == [exists |-> FALSE, mni |-> NoLimit, mbs |-> NoLimit, cni |-> 0, cbs |-> 0,
         instances |-> <<>>, now |-> 0]

NoTsLog == [op |-> "none", rsc |-> "none", resource |-> <<>>, before |-> <<>>,
            removed |-> <<>>, changed |-> FALSE]

\* sorted(..., key = lambda x: x.ct): a stable sort
RECURSIVE sortedByCt(_)
sortedByCt(s) ==
    IF s = <<>> THEN <<>>
    ELSE LET rest == sortedByCt(Tail(s))
             k == Cardinality({i \in 1..Len(rest) : rest[i].ct < Head(s).ct})
         IN  SubSeq(rest, 1, k) \o <<Head(s)>> \o SubSeq(rest, k + 1, Len(rest))

\* TS.timeSeriesInstances, lines 265-268, of the children in storage order
timeSeriesInstances(instances) == sortedByCt(instances)

\* the children in storage order without the first i of cs: what
\* CSE.dispatcher.deleteResource(cs[i], parentResource=self) leaves, the nested
\* childRemoved -> _validateChildren returning at once (lines 173-174)
RECURSIVE withoutFirst(_, _, _)
withoutFirst(instances, cs, i) ==
    IF i = 0 THEN instances
    ELSE LET x == Head(cs)
             at == CHOOSE j \in 1..Len(instances) :
                        instances[j] = x /\ \A m \in 1..(j - 1) : instances[m] # x
         IN  withoutFirst(RemoveAt(instances, at), Tail(cs), i - 1)

\* _validateChildren, lines 181-188: the number of children the loop deletes
RECURSIVE mniLoop(_, _, _, _)
mniLoop(cni, mni, i, l) ==
    IF cni > mni /\ i < l THEN mniLoop(cni - 1, mni, i + 1, l) ELSE i

RECURSIVE contentSize(_)
contentSize(cs) == IF cs = <<>> THEN 0 ELSE Head(cs).cs + contentSize(Tail(cs))

\* the loop of lines 200-208 without line 207: cni is not decremented
mbsLoop_CniKept(cs, cbs, cni, mbs, i, l) ==
    LET n == CHOOSE k \in 0..l :
                /\ (k = l \/ cbs - contentSize(SubSeq(cs, 1, k)) <= mbs)
                /\ \A m \in 0..(k - 1) : cbs - contentSize(SubSeq(cs, 1, m)) > mbs
    IN  [i |-> n, cbs |-> cbs - contentSize(SubSeq(cs, 1, n)), cni |-> cni]

\* _validateChildren, lines 198-207: the number of children the loop deletes, cbs and
\* cni afterwards
RECURSIVE mbsLoop(_, _, _, _, _, _)
mbsLoop(cs, cbs, cni, mbs, i, l) ==
    IF cbs > mbs /\ i < l
    THEN mbsLoop(cs, cbs - cs[i + 1].cs, cni - 1, mbs, i + 1, l)
    ELSE [i |-> i, cbs |-> cbs, cni |-> cni]

\* TS._validateChildren, lines 168-216: the resource afterwards and the children removed
validateChildren(ts) ==
    LET cs1 == timeSeriesInstances(ts.instances)
        n1 == IF ts.mni # NoLimit THEN mniLoop(Len(cs1), ts.mni, 0, Len(cs1)) ELSE 0
        left1 == withoutFirst(ts.instances, cs1, n1)
        cs2 == IF ts.mni # NoLimit THEN timeSeriesInstances(left1) ELSE cs1
        cni == Len(cs2)
        cbs == contentSize(cs2)
        l2 == IF ts.mbs # NoLimit THEN mbsLoop(cs2, cbs, cni, ts.mbs, 0, Len(cs2))
              ELSE [i |-> 0, cbs |-> cbs, cni |-> cni]
    IN  [ts |-> [ts EXCEPT !.instances = withoutFirst(left1, cs2, l2.i),
                           !.cni = l2.cni, !.cbs = l2.cbs],
         removed |-> SubSeq(cs1, 1, n1) \o SubSeq(cs2, 1, l2.i)]

\* TS.__init__, lines 45-60, and TS.activate: a <ts> is created, with or without limits
InitTs ==
    /\ \E mni \in Limits, mbs \in Limits :
        tsRes = [NoTs EXCEPT !.exists = TRUE, !.mni = mni, !.mbs = mbs]
    /\ tsLog = NoTsLog

\* CREATE of a <tsi> below the <ts>: TS.childWillBeAdded, lines 114-135, the child is
\* stored with the current time as ct, TS.childAdded, lines 139-157
childAdded(cs, tick) ==
    /\ tsRes.exists
    /\ Len(tsRes.instances) < MaxInstances
    /\ tsRes.now + tick <= MaxCt
    /\ IF tsRes.mbs # NoLimit /\ cs > tsRes.mbs
       THEN /\ tsLog' = [NoTsLog EXCEPT !.op = "childWillBeAdded", !.rsc = "notAcceptable",
                             !.before = tsRes.instances]
            /\ UNCHANGED tsRes
       ELSE LET child == [ct |-> tsRes.now + tick, cs |-> cs]
                added == [tsRes EXCEPT !.instances = Append(@, child), !.now = @ + tick]
                v == validateChildren(added)
            IN  /\ tsRes' = v.ts
                /\ tsLog' = [NoTsLog EXCEPT !.op = "childAdded", !.rsc = "created",
                                 !.resource = <<child>>, !.before = added.instances,
                                 !.removed = v.removed, !.changed = TRUE]
    /\ UNCHANGED notTs

\* DELETE of a <tsi>: TS.childRemoved, lines 161-165
childRemoved(i) ==
    /\ tsRes.exists
    /\ i \in 1..Len(tsRes.instances)
    /\ LET v == validateChildren([tsRes EXCEPT !.instances = RemoveAt(@, i)])
       IN  /\ tsRes' = v.ts
           /\ tsLog' = [NoTsLog EXCEPT !.op = "childRemoved", !.rsc = "deleted",
                            !.before = tsRes.instances, !.removed = v.removed,
                            !.changed = TRUE]
    /\ UNCHANGED notTs

\* UPDATE of the limits of the <ts>: TS.validate, lines 106-111
TS_update(mni, mbs) ==
    /\ tsRes.exists
    /\ LET v == validateChildren([tsRes EXCEPT !.mni = mni, !.mbs = mbs])
       IN  /\ tsRes' = v.ts
           /\ tsLog' = [NoTsLog EXCEPT !.op = "update", !.rsc = "updated",
                            !.before = tsRes.instances, !.removed = v.removed,
                            !.changed = TRUE]
    /\ UNCHANGED notTs

\* DELETE of the <ts>: its children go with it
TS_delete ==
    /\ tsRes.exists
    /\ tsRes' = [NoTs EXCEPT !.now = tsRes.now]
    /\ tsLog' = [NoTsLog EXCEPT !.op = "delete", !.rsc = "deleted",
                     !.before = tsRes.instances, !.changed = TRUE]
    /\ UNCHANGED notTs

\* TS_OL._getOldest with rs[-1] in the place of rs[0]
getOldest_Newest(ts) ==
    LET rs == IF ts.exists THEN timeSeriesInstances(ts.instances) ELSE <<>>
    IN  IF Len(rs) > 0 THEN <<rs[Len(rs)]>> ELSE <<>>

\* TS_OL._getOldest, lines 54-59: <<>> is None
getOldest(ts) ==
    LET rs == IF ts.exists THEN timeSeriesInstances(ts.instances) ELSE <<>>
    IN  IF Len(rs) > 0 THEN <<rs[1]>> ELSE <<>>

\* TS_OL.handleRetrieveRequest, lines 28-33
handleRetrieveRequest ==
    /\ tsLog' = [NoTsLog EXCEPT !.op = "handleRetrieveRequest",
                     !.rsc = IF getOldest(tsRes) = <<>> THEN "notFound" ELSE "OK",
                     !.resource = getOldest(tsRes), !.before = tsRes.instances]
    /\ UNCHANGED <<tsRes, notTs>>

\* TS_OL.handleCreateRequest, lines 36-38
handleCreateRequest ==
    /\ tsLog' = [NoTsLog EXCEPT !.op = "handleCreateRequest", !.rsc = "operationNotAllowed",
                     !.before = tsRes.instances]
    /\ UNCHANGED <<tsRes, notTs>>

\* TS_OL.handleUpdateRequest, lines 41-43
handleUpdateRequest ==
    /\ tsLog' = [NoTsLog EXCEPT !.op = "handleUpdateRequest", !.rsc = "operationNotAllowed",
                     !.before = tsRes.instances]
    /\ UNCHANGED <<tsRes, notTs>>

\* TS_OL.handleDeleteRequest, lines 46-51: the oldest <tsi> is deleted through the
\* dispatcher, which calls TS.childRemoved
handleDeleteRequest ==
    LET r == getOldest(tsRes)
        v == validateChildren([tsRes EXCEPT !.instances = withoutFirst(@, r, 1)])
    IN  /\ tsRes' = IF r = <<>> THEN tsRes ELSE v.ts
        /\ tsLog' = [NoTsLog EXCEPT !.op = "handleDeleteRequest",
                         !.rsc = IF r = <<>> THEN "notFound" ELSE "deleted",
                         !.resource = r, !.before = tsRes.instances,
                         !.removed = IF r = <<>> THEN <<>> ELSE v.removed,
                         !.changed = (r # <<>>)]
        /\ UNCHANGED notTs

NextTs ==
    \/ \E cs \in ContentSizes, tick \in {0, 1} : childAdded(cs, tick)
    \/ \E i \in 1..MaxInstances : childRemoved(i)
    \/ \E mni \in Limits, mbs \in Limits : TS_update(mni, mbs)
    \/ TS_delete
    \/ handleRetrieveRequest
    \/ handleCreateRequest
    \/ handleUpdateRequest
    \/ handleDeleteRequest

\* ==================================================================
\*  <request> resources: creation, progress of the request status, deletion
\*  (REQ.py, 69-152)
\* ==================================================================
ReqIds == {"req1", "req2"}

\* RequestStatus, and "None" for a <request> without rs
RequestStatus == {"COMPLETED", "FAILED", "PENDING", "FORWARDED", "PARTIALLY_COMPLETED"}
RsValues == RequestStatus \cup {"None"}

NoReq == [exists |-> FALSE, rs |-> "None"]
NoReqLog == [op |-> "none", ri |-> "none", rs |-> "None", rsc |-> "none",
             before |-> [ri \in ReqIds |-> NoReq]]

\* willBeDeactivated refusing a FORWARDED <request> only
willBeDeactivated_ForwardedOnly(rs) ==
    IF rs = "FORWARDED" THEN "UNABLE_TO_RECALL_REQUEST" ELSE "OK"

\* REQ.willBeDeactivated, lines 69-78: the exception raised, or "OK" for the return
\* of Resource.willBeDeactivated
willBeDeactivated(rs) ==
    CASE rs = "PENDING" -> "UNABLE_TO_RECALL_REQUEST"
      [] rs = "FORWARDED" -> "UNABLE_TO_RECALL_REQUEST"
      [] rs = "PARTIALLY_COMPLETED" -> "UNABLE_TO_RECALL_REQUEST"
      [] OTHER -> "OK"

InitReq ==
    /\ reqRes = [ri \in ReqIds |-> NoReq]
    /\ reqLog = NoReqLog

\* REQ.createRequestResource, lines 82-152, and the CREATE of the resource: rs is PENDING
createRequestResource(ri) ==
    /\ ~reqRes[ri].exists
    /\ reqRes' = [reqRes EXCEPT ![ri] = [exists |-> TRUE, rs |-> "PENDING"]]
    /\ reqLog' = [NoReqLog EXCEPT !.op = "createRequestResource", !.ri = ri,
                      !.rs = "PENDING", !.rsc = "created", !.before = reqRes]
    /\ UNCHANGED notReq

\* the request proceeds: rs of the <request> is set, or removed
setRequestStatus(ri, rs) ==
    /\ reqRes[ri].exists
    /\ reqRes[ri].rs # rs
    /\ reqRes' = [reqRes EXCEPT ![ri].rs = rs]
    /\ reqLog' = [NoReqLog EXCEPT !.op = "setRequestStatus", !.ri = ri, !.rs = rs,
                      !.rsc = "updated", !.before = reqRes]
    /\ UNCHANGED notReq

\* DELETE of a <request>: willBeDeactivated before the commit, then the removal
REQ_delete(ri) ==
    /\ reqRes[ri].exists
    /\ LET res == willBeDeactivated(reqRes[ri].rs)
       IN  /\ reqRes' = IF res = "OK" THEN [reqRes EXCEPT ![ri] = NoReq] ELSE reqRes
           /\ reqLog' = [NoReqLog EXCEPT !.op = "delete", !.ri = ri, !.rs = reqRes[ri].rs,
                             !.rsc = IF res = "OK" THEN "deleted" ELSE res,
                             !.before = reqRes]
    /\ UNCHANGED notReq

NextReq ==
    \/ \E ri \in ReqIds : createRequestResource(ri)
    \/ \E ri \in ReqIds, rs \in RsValues : setRequestStatus(ri, rs)
    \/ \E ri \in ReqIds : REQ_delete(ri)

\* ==================================================================
\*  timeSeries in the Resource table: TS.activate and the virtual children
\*  (TS.py, 73-91; TS_OL.py, 24-25; Storage.py, 76-101)
\* ==================================================================
VrTs == {"ts1", "ts2"}
TsiNames == {"tsi1", "tsi2"}
CseRi == "cse"

\* the types with isVirtual = True (TS_OL.__init__, line 25, and its sibling <latest>)
VirtualTypes == {"TS_LA", "TS_OL"}

NoVrLog == [op |-> "none", pi |-> "none", rn |-> "none", rsc |-> "none", before |-> <<>>]

vr_has(table, pi, rn) == \E i \in 1..Len(table) : table[i].pi = pi /\ table[i].rn = rn

\* Storage.createResource called without overwrite, lines 76-101: the table afterwards
\* and whether the resource was stored
vr_createResource(table, doc) ==
    IF vr_has(table, doc.pi, doc.rn)
    THEN [table |-> table, status |-> FALSE]
    ELSE [table |-> Append(table, doc), status |-> TRUE]

\* CSE.dispatcher.createResource(resource): the resource is stored, or the request fails
\* before the commit
vr_dispatcherCreate(table, doc, ok) ==
    IF ok THEN vr_createResource(table, doc) ELSE [table |-> table, status |-> FALSE]

\* TS.activate, lines 73-91: <latest> is created, then <oldest>; the first failure ends it
TS_activate(table, ri, okLa, okOl) ==
    LET la == vr_dispatcherCreate(table, [pi |-> ri, rn |-> "la", ty |-> "TS_LA"], okLa)
        ol == vr_dispatcherCreate(la.table, [pi |-> ri, rn |-> "ol", ty |-> "TS_OL"], okOl)
    IN  IF ~la.status THEN la ELSE ol

vr_remove(table, keep(_)) == SelectSeq(table, keep)

InitVr ==
    /\ vrTab = <<>>
    /\ vrLog = NoVrLog

\* CREATE of a <ts> below the CSEBase: the commit, then activate; a <ts> whose
\* activation fails is removed again
TS_create(ri, okLa, okOl) ==
    /\ ~vr_has(vrTab, CseRi, ri)
    /\ LET c == vr_createResource(vrTab, [pi |-> CseRi, rn |-> ri, ty |-> "TS"])
           a == TS_activate(c.table, ri, okLa, okOl)
           notTheTs(d) == ~(d.pi = CseRi /\ d.rn = ri)
       IN  /\ vrTab' = IF a.status THEN a.table ELSE vr_remove(a.table, notTheTs)
           /\ vrLog' = [NoVrLog EXCEPT !.op = "createTS", !.pi = CseRi, !.rn = ri,
                            !.rsc = IF a.status THEN "created" ELSE "failed",
                            !.before = vrTab]
    /\ UNCHANGED notVr

\* CREATE of a <tsi> below a <ts>
TSI_create(pi, rn) ==
    /\ vr_has(vrTab, CseRi, pi)
    /\ LET c == vr_createResource(vrTab, [pi |-> pi, rn |-> rn, ty |-> "TSI"])
       IN  /\ vrTab' = c.table
           /\ vrLog' = [NoVrLog EXCEPT !.op = "createTSI", !.pi = pi, !.rn = rn,
                            !.rsc = IF c.status THEN "created" ELSE "alreadyExists",
                            !.before = vrTab]
    /\ UNCHANGED notVr

\* DELETE of a <ts>: its children go with it
TS_remove(ri) ==
    /\ vr_has(vrTab, CseRi, ri)
    /\ LET others(d) == ~(d.pi = CseRi /\ d.rn = ri) /\ d.pi # ri
       IN  vrTab' = vr_remove(vrTab, others)
    /\ vrLog' = [NoVrLog EXCEPT !.op = "deleteTS", !.pi = CseRi, !.rn = ri,
                     !.rsc = "deleted", !.before = vrTab]
    /\ UNCHANGED notVr

NextVr ==
    \/ \E ri \in VrTs, okLa, okOl \in BOOLEAN : TS_create(ri, okLa, okOl)
    \/ \E pi \in VrTs, rn \in TsiNames : TSI_create(pi, rn)
    \/ \E ri \in VrTs : TS_remove(ri)

\* ==================================================================
\*  NotificationManager: one notification of a subscription record, sent to its nus
\*  by one thread (_handleSubscriptionNotification, 643-708; _sendNotification, 711-732)
\* ==================================================================
\* _sendNotification for a list, lines 729-732: the URIs the sender was called for and
\* the value returned
sendNotification(uris, failing) ==
    LET called == sendNotificationTo(uris, 1, failing)
    IN  [called |-> called,
         result |-> ~(called # <<>> /\ called[Len(called)] \in failing)]

InitSnd == sndCall = NoCall

\* _handleSubscriptionNotification, lines 643-708, for a record without bn: the sender
\* fails for the URIs in failing; exc is the expiration counter of the record (0: not set)
handleSubscriptionNotification(nus, failing, exc) ==
    /\ LET sent == sendNotification(nus, failing)
           counted == sent.result /\ exc # 0
           after == IF counted THEN decrementedExc(exc) ELSE exc
       IN  sndCall' = [op |-> "handleSubscriptionNotification", nus |-> nus,
                       failing |-> failing, exc |-> exc,
                       called |-> sent.called, result |-> sent.result,
                       excAfter |-> after,
                       deleted |-> counted /\ expired(after)]
    /\ UNCHANGED notSnd

call_handleSubscriptionNotification ==
    /\ sndCall = NoCall
    /\ \E nus \in NuLists, failing \in SUBSET Uris, exc \in 0..MaxExc :
            handleSubscriptionNotification(nus, failing, exc)

\* _sendNotification for a single URI, lines 726-727: the value of the sender
call_sendNotification ==
    /\ sndCall = NoCall
    /\ \E uri \in Uris, failing \in SUBSET Uris :
            sndCall' = [op |-> "sendNotification", nus |-> <<uri>>, failing |-> failing,
                        exc |-> 0, called |-> <<uri>>, result |-> uri \notin failing,
                        excAfter |-> 0, deleted |-> FALSE]
    /\ UNCHANGED notSnd

NextSnd ==
    \/ call_handleSubscriptionNotification
    \/ call_sendNotification

\* ==================================================================
\*  App data of Storage: one thread calls getAppData, updateAppData,
\*  removeAppData (Storage.py 321-330; TinyDBBinding 596-616)
\* ==================================================================
AppVals == {"v1", "v2", "v3"}
AppData == [id : AppIds, val : AppVals] \cup [val : AppVals]
NoAppLog == [op |-> "none"]
\* None as the result of a search
NoAppData == [found |-> FALSE]

\* TinyDB update(fields, cond): dict.update(fields) on every document that matches
tinydbUpdateFields(table, fields, cond(_)) ==
    [i \in 1..Len(table) |->
        IF cond(table[i])
        THEN [f \in DOMAIN table[i] \cup DOMAIN fields |->
                 IF f \in DOMAIN fields THEN fields[f] ELSE table[i][f]]
        ELSE table[i]]

\* TinyDBBinding.searchAppData, lines 596-599: get() gives the first document that
\* matches, None when there is none
searchAppData(table, id) ==
    LET found == WithId(table, id)
    IN  IF found # <<>> THEN found[1] ELSE NoAppData

\* TinyDBBinding.upsertAppData, lines 602-609: the table and the value returned
upsertAppData(table, data) ==
    IF "id" \notin DOMAIN data THEN [table |-> table, rtn |-> Null]
    ELSE IF Len(table) > 0
         THEN [table |-> tinydbUpdateFields(table, data, LAMBDA d : d.id = data.id),
               rtn |-> TRUE]
    ELSE [table |-> Append(table, data), rtn |-> TRUE]

\* openDB: the table of a first run is empty
InitApp ==
    /\ appTab = <<>>
    /\ appLog = NoAppLog

\* Storage.updateAppData, lines 325-326
app_updateAppData(data) ==
    /\ appTab' = upsertAppData(appTab, data).table
    /\ appLog' = [op |-> "updateAppData", data |-> data, before |-> appTab,
                  rtn |-> upsertAppData(appTab, data).rtn]
    /\ UNCHANGED notApp

\* Storage.getAppData, lines 321-322
app_getAppData(id) ==
    /\ appLog' = [op |-> "getAppData", id |-> id, before |-> appTab,
                  rtn |-> searchAppData(appTab, id)]
    /\ UNCHANGED <<appTab, notApp>>

\* Storage.removeAppData, lines 329-330, TinyDBBinding.removeAppData, lines 612-616
app_removeAppData(data) ==
    /\ appTab' = IF "id" \in DOMAIN data
                 THEN SelectSeq(appTab, LAMBDA d : d.id # data.id) ELSE appTab
    /\ appLog' = [op |-> "removeAppData", data |-> data, before |-> appTab,
                  rtn |-> IF "id" \in DOMAIN data THEN WithId(appTab, data.id) # <<>>
                          ELSE Null]
    /\ UNCHANGED notApp

NextApp ==
    \/ \E data \in AppData : app_updateAppData(data)
    \/ \E id \in AppIds : app_getAppData(id)
    \/ \E data \in AppData : app_removeAppData(data)

\* ==================================================================
\*  Specifications: each part runs with the other parts at rest
\* ==================================================================
CrsAtRest == crsTwt = "SLIDING" /\ crsPool = <<>>
                 /\ crsThread = [t \in ReqThreads |-> IdleThread] /\ crsClosed = NoWindow

SubAtRest == InitSub

NtfAtRest ==
    /\ ntfCfg = [exc0 |-> 0, bn |-> NoBn, ln |-> FALSE, nus |-> <<"u1">>]
    /\ ntfRes = Gone /\ ntfRec = Gone
    /\ hnd = [h \in Handlers |-> IdleHandler]
    /\ pending = [nu \in NtfNus |-> {}] /\ stamp = 1
    /\ guardPool = [nu \in NtfNus |-> 0] /\ agg = NoAgg
    /\ ntfLog = [k |-> 0, delivered |-> {}, lost |-> {}, overtaken |-> {},
                 resent |-> FALSE, last |-> NoPayload, left |-> NotRemoved]

StoreAtRest ==
    /\ tab = [T \in Tables |-> <<>>] /\ lock = [T \in Tables |-> Free]
    /\ cl = [t \in Clients |-> IdleClient] /\ purge = NoPurge /\ view = NoView
    /\ calls = 0 /\ overlap = FALSE

SecAtRest == secCall = NoCall

NmcAtRest == nmCall = NoCall

EvtAtRest ==
    /\ evRunning = TRUE
    /\ evt = NoEvent
    /\ evRun = NoRun
    /\ evLog = NoLog

DocAtRest == docTab = [Resources |-> <<>>, Identifiers |-> <<>>] /\ docLog = EmptyLog

AnnAtRest ==
    annRes = [id \in AnnIds |-> NoAnnouncement] /\ annCsrs = [csi \in AnnPeers |-> "none"]
    /\ annLog = NoAnnLog

TsAtRest ==
    tsRes = NoTs /\ tsLog = NoTsLog

ReqAtRest ==
    reqRes = [ri \in ReqIds |-> NoReq] /\ reqLog = NoReqLog

VrAtRest ==
    vrTab = <<>> /\ vrLog = NoVrLog

SndAtRest ==
    sndCall = NoCall

AppAtRest ==
    appTab = <<>> /\ appLog = NoAppLog

InitSpecCrs == InitCrs /\ SubAtRest /\ NtfAtRest /\ StoreAtRest /\ SecAtRest /\ NmcAtRest /\ EvtAtRest /\ DocAtRest /\ AnnAtRest /\ TsAtRest /\ ReqAtRest /\ VrAtRest /\ SndAtRest /\ AppAtRest

SpecCrs == InitSpecCrs /\ [][NextCrs]_vars

\* a periodic <crs> from its creation, when its worker is started, until the worker
\* is stopped
InitSpecCrsPeriodic == InitSpecCrs /\ crsTwt = "PERIODIC"

NextCrsPeriodic ==
    \/ restart
    \/ \E t \in ReqThreads, sur \in Surs : receivedCrossResourceSubscriptionNotification(t, sur)
    \/ \E t \in ReqThreads : crsMembershipTest(t)
    \/ \E t \in ReqThreads : crsAppend(t)
    \/ \E i \in ReqThreads, retrievable \in BOOLEAN : crsCheckForNotification(i, retrievable)
    \/ \E i \in ReqThreads : crsClearWindow(i)

SpecCrsPeriodic == InitSpecCrsPeriodic /\ [][NextCrsPeriodic]_vars

InitSpecSub == InitSub /\ CrsAtRest /\ NtfAtRest /\ StoreAtRest /\ SecAtRest /\ NmcAtRest /\ EvtAtRest /\ DocAtRest /\ AnnAtRest /\ TsAtRest /\ ReqAtRest /\ VrAtRest /\ SndAtRest /\ AppAtRest

SpecSub == InitSpecSub /\ [][NextSub]_vars

InitSpecNtf == InitNtf /\ CrsAtRest /\ SubAtRest /\ StoreAtRest /\ SecAtRest /\ NmcAtRest /\ EvtAtRest /\ DocAtRest /\ AnnAtRest /\ TsAtRest /\ ReqAtRest /\ VrAtRest /\ SndAtRest /\ AppAtRest

SpecNtf == InitSpecNtf /\ [][NextNtf]_vars

InitSpecStore == InitStore /\ CrsAtRest /\ SubAtRest /\ NtfAtRest /\ SecAtRest /\ NmcAtRest /\ EvtAtRest /\ DocAtRest /\ AnnAtRest /\ TsAtRest /\ ReqAtRest /\ VrAtRest /\ SndAtRest /\ AppAtRest

SpecStore == InitSpecStore /\ [][NextStore]_vars

InitSpecSec == InitSec /\ CrsAtRest /\ SubAtRest /\ NtfAtRest /\ StoreAtRest /\ NmcAtRest /\ EvtAtRest /\ DocAtRest /\ AnnAtRest /\ TsAtRest /\ ReqAtRest /\ VrAtRest /\ SndAtRest /\ AppAtRest

SpecSec == InitSpecSec /\ [][NextSec]_vars

InitSpecNmc ==
    InitNmc /\ CrsAtRest /\ SubAtRest /\ NtfAtRest /\ StoreAtRest /\ SecAtRest /\ EvtAtRest /\ DocAtRest /\ AnnAtRest /\ TsAtRest /\ ReqAtRest /\ VrAtRest /\ SndAtRest /\ AppAtRest

SpecNmc == InitSpecNmc /\ [][NextNmc]_vars

SpecNmcOfParent == InitSpecNmc /\ [][NextNmcOfParent]_vars

InitSpecEvt ==
    InitEvt /\ CrsAtRest /\ SubAtRest /\ NtfAtRest /\ StoreAtRest /\ SecAtRest /\ NmcAtRest /\ DocAtRest /\ AnnAtRest /\ TsAtRest /\ ReqAtRest /\ VrAtRest /\ SndAtRest /\ AppAtRest

SpecEvt == InitSpecEvt /\ [][NextEvt]_vars

InitSpecDoc ==
    InitDoc /\ CrsAtRest /\ SubAtRest /\ NtfAtRest /\ StoreAtRest /\ SecAtRest /\ NmcAtRest /\ EvtAtRest /\ AnnAtRest /\ TsAtRest /\ ReqAtRest /\ VrAtRest /\ SndAtRest /\ AppAtRest

SpecDoc == InitSpecDoc /\ [][NextDoc]_vars

InitSpecAnn ==
    InitAnn /\ CrsAtRest /\ SubAtRest /\ NtfAtRest /\ StoreAtRest /\ SecAtRest /\ NmcAtRest /\ EvtAtRest /\ DocAtRest /\ TsAtRest /\ ReqAtRest /\ VrAtRest /\ SndAtRest /\ AppAtRest

SpecAnn == InitSpecAnn /\ [][NextAnn]_vars

InitSpecTs ==
    InitTs /\ CrsAtRest /\ SubAtRest /\ NtfAtRest /\ StoreAtRest /\ SecAtRest /\ NmcAtRest /\ EvtAtRest /\ DocAtRest /\ AnnAtRest /\ ReqAtRest /\ VrAtRest /\ SndAtRest /\ AppAtRest

SpecTs == InitSpecTs /\ [][NextTs]_vars

InitSpecReq ==
    InitReq /\ CrsAtRest /\ SubAtRest /\ NtfAtRest /\ StoreAtRest /\ SecAtRest /\ NmcAtRest /\ EvtAtRest /\ DocAtRest /\ AnnAtRest /\ TsAtRest /\ VrAtRest /\ SndAtRest /\ AppAtRest

SpecReq == InitSpecReq /\ [][NextReq]_vars

InitSpecVr ==
    InitVr /\ CrsAtRest /\ SubAtRest /\ NtfAtRest /\ StoreAtRest /\ SecAtRest /\ NmcAtRest /\ EvtAtRest /\ DocAtRest /\ AnnAtRest /\ TsAtRest /\ ReqAtRest /\ SndAtRest /\ AppAtRest

SpecVr == InitSpecVr /\ [][NextVr]_vars

InitSpecSnd ==
    InitSnd /\ CrsAtRest /\ SubAtRest /\ NtfAtRest /\ StoreAtRest /\ SecAtRest /\ NmcAtRest /\ EvtAtRest /\ DocAtRest /\ AnnAtRest /\ TsAtRest /\ ReqAtRest /\ VrAtRest /\ AppAtRest

SpecSnd == InitSpecSnd /\ [][NextSnd]_vars

InitSpecApp ==
    InitApp /\ CrsAtRest /\ SubAtRest /\ NtfAtRest /\ StoreAtRest /\ SecAtRest /\ NmcAtRest /\ EvtAtRest /\ DocAtRest /\ AnnAtRest /\ TsAtRest /\ ReqAtRest /\ VrAtRest /\ SndAtRest

SpecApp == InitSpecApp /\ [][NextApp]_vars

\* ------------------------------------------------------------------ claims

\* C2: for either window type, a window of a retrievable <crs> fires exactly one
\* notification when at least n distinct sur were received in it and none when
\* fewer than n distinct sur were received.
C2_OneNotificationPerCompleteWindow ==
    (crsClosed.closed /\ crsClosed.retrievable) =>
        crsClosed.fired = (IF Cardinality(crsClosed.recv) >= subCount THEN 1 ELSE 0)

\* C3: the data list of a window worker never holds the same sur twice, also
\* with several request threads delivering to the same <crs>.
C3_WindowDataUnique ==
    \A i \in 1..Len(crsPool) : NoDuplicates(crsPool[i].data)

AllHandled == \A h \in Handlers : hnd[h].pc = "idle"

\* C1: a <sub> created with expiration counter exc0 >= 1 exists, after k <= exc0
\* successful notifications have been handled, iff exc0 - k >= 1, and its counter
\* then is exc0 - k; failed notifications leave the counter alone.
C1_ExpirationCounter ==
    (ntfCfg.exc0 >= 1 /\ AllHandled /\ ntfLog.k <= ntfCfg.exc0) =>
        /\ (ntfRes.exists /\ ntfRec.exists) <=> (ntfCfg.exc0 - ntfLog.k >= 1)
        /\ ntfRes.exists <=> ntfRec.exists
        /\ ntfRec.exists => (ntfRec.exc = ntfCfg.exc0 - ntfLog.k /\ ntfRes.exc = ntfRec.exc)

\* C5: a stored batch notification stays stored until an aggregated notification
\* holding it was sent successfully: it is pending, in the batch being sent, or delivered.
C5_FailedBatchStaysPending ==
    \A id \in 1..(stamp - 1) :
        \/ \E nu \in NtfNus : id \in pending[nu]
        \/ agg.held /\ id \in Range(agg.all)
        \/ id \in ntfLog.delivered

\* C6: whatever triggers it (bn.num reached, the bn.dur guard, a flush), the m2m:agn
\* payload holds the pending notifications of the pair in ascending time stamp order,
\* only the latest one when ln is set, and none of them is sent a second time.
C6_AggregatedPayload ==
    ntfLog.last.sent =>
        /\ ntfLog.last.payload = (IF ntfCfg.ln THEN <<ntfLog.last.all[Len(ntfLog.last.all)]>>
                                  ELSE ntfLog.last.all)
        /\ \A a, b \in 1..Len(ntfLog.last.payload) :
              a < b => ntfLog.last.payload[a] < ntfLog.last.payload[b]
        /\ ~ntfLog.resent

\* the entries of the operation's nu that are new and are not the originator
NewNus == {crud.nu[j] : j \in {k \in 1..Len(crud.nu) :
                 /\ crud.nu[k] \notin Range(crud.previousNus)
                 /\ crud.nu[k] # crud.originator
                 /\ CseRelative(crud.nu[k]) # CseRelative(crud.originator)}}

\* C4: add / update send a verification request to every new nu that is not the
\* originator before the record is written; a failed verification ends the operation
\* with SUBSCRIPTION_VERIFICATION_INITIATION_FAILED and the table unchanged; the
\* originator and the previous nus get no verification request.
C4_VerificationBeforeStore ==
    /\ Range(verifSent) \subseteq NewNus
    /\ crud.pc = "verify" => subTab = crud.before
    /\ crud.pc = "store" => (Range(verifSent) = NewNus /\ subTab = crud.before)
    /\ crud.res = "OK" => Range(verifSent) = NewNus
    /\ crud.failed <=> crud.res = "SUBSCRIPTION_VERIFICATION_INITIATION_FAILED"
    /\ crud.failed => subTab = crud.before
    /\ subTab # crud.before => crud.res = "OK"

C4_Witness ==
    /\ crud.res = "OK"
    /\ crud.op = "update"
    /\ verifSent # <<>>
    /\ \E j \in 1..Len(crud.nu) : crud.nu[j] \in Range(crud.previousNus)
    /\ \E j \in 1..Len(crud.nu) : crud.nu[j] = "/id-in/Cae" /\ crud.originator = "Cae"

C4_WitnessFailed ==
    /\ crud.failed
    /\ crud.op = "add"
    /\ Len(verifSent) = 2

StoredRis(T) == {d.ri : d \in Range(tab[T])}

NoPurgeYet == purge.pc = "idle"

\* C7: createResource and deleteResource change the Resource table and the Identifier
\* table as one atomic step: in no state another Store operation can run in (both
\* table locks free) is there a resource without identifier or an identifier without
\* resource.
C7_ResourceIdentifierAtomic ==
    (NoPurgeYet /\ lock["Resources"] = Free /\ lock["Identifiers"] = Free) =>
        StoredRis("Resources") = StoredRis("Identifiers")

AllReturned == \A t \in Clients : cl[t].pc = "idle"

\* C8: after any sequence of completed createResource (with or without overwrite)
\* and deleteResource calls, run one after the other, every stored resource has
\* exactly one identifier row for its ri and exactly one for its srn, the same row,
\* no identifier row is without resource, and retrieval by srn returns the resource.
C8_IdentifierBijection ==
    (NoPurgeYet /\ ~overlap /\ AllReturned) =>
        /\ \A r \in Range(tab["Resources"]) :
             /\ Len(WithRi(tab["Identifiers"], r.ri)) = 1
             /\ Len(WithSrn(tab["Identifiers"], r.srn)) = 1
             /\ WithRi(tab["Identifiers"], r.ri) = WithSrn(tab["Identifiers"], r.srn)
             /\ searchResourcesBySrn(tab["Identifiers"], tab["Resources"], r.srn) = <<r>>
        /\ StoredRis("Identifiers") \subseteq StoredRis("Resources")

C10_TableAccessUnderOwnLock ==
    /\ \A t \in Clients : cl[t].holds => lock[LockOf(cl[t].pc)] = t
    /\ \A T \in Tables : Truncating(T) => lock[T] = "purgeDB"
    /\ \A t \in Clients : Cardinality({T \in Tables : lock[T] = t}) <= 1

\* the threads inside CSE.request.sendNotifyRequest: a handler sending a single
\* notification (line 686), the thread sending an aggregated one (line 826; 0 is the guard)
InSendNotifyRequest ==
    {h \in Handlers : hnd[h].pc = "send" /\ ~ntfCfg.bn.on}
        \cup (IF agg.held /\ agg.pc = "send" THEN {agg.by} ELSE {})

HoldsBatchLock(x) == agg.held /\ agg.by = x

\* C11: a thread inside CSE.request.sendNotifyRequest holds neither a Store table
\* lock nor the batch notification lock.
C11_NoLockWhileSending ==
    \A x \in InSendNotifyRequest :
        /\ ~HoldsBatchLock(x)
        /\ \A T \in Tables : lock[T] = Free

\* the originator matches the acor: literally, by the keyword all, by a wildcard, or as
\* a member of a group the acor names
OriginatorMatches(acor, originator) ==
    \/ originator \in Range(acor)
    \/ "all" \in Range(acor)
    \/ \E a \in Range(acor) : simpleMatch(originator, a)
    \/ \E a \in Range(acor) \cap GroupRIs : GroupRetrievable(a) /\ originator \in GroupMid(a)

RuleGrants(acr, originator, requestedPermission, ty) ==
    /\ requestedPermission \cap acr.acop # {}
    /\ \/ acr.acod = <<>>
       \/ \E j \in 1..Len(acr.acod) :
            IF requestedPermission = CREATE
            THEN ty # None /\ ty \in acr.acod[j].chty
            ELSE ty = None \/ ty = acr.acod[j].ty
    /\ OriginatorMatches(acr.acor, originator)

\* C13: checkSingleACPPermission returns true iff some pv rule has a permission in
\* common with the request, has no acod or an acod entry that fits (CREATE: ty given
\* and in chty; otherwise: ty not given or equal to the entry's ty), and its acor
\* matches the originator.
C13_SingleACPPermission ==
    secCall.op = "checkSingleACPPermission" =>
        (secCall.result <=>
            \E i \in 1..Len(secCall.pv) :
                RuleGrants(secCall.pv[i], secCall.originator,
                           secCall.requestedPermission, secCall.ty))

C13_Witness ==
    /\ secCall.op = "checkSingleACPPermission"
    /\ secCall.result
    /\ Len(secCall.pv) = 2
    /\ ~RuleGrants(secCall.pv[1], secCall.originator, secCall.requestedPermission, secCall.ty)
    /\ Len(secCall.pv[2].acod) = 2
    /\ secCall.pv[2].acor = <<"grp1">>
    /\ secCall.requestedPermission = CREATE

\* the same call with one further ACP identifier in the acpi of the resource
WithFurtherACP(call, acpRi) ==
    hasAccess(call.cfg, call.originator,
              [call.resource EXCEPT !.acpi = Append(@, acpRi)],
              call.requestedPermission, call.ty, call.parentResource).result

\* C12: when hasAccess grants a request on a resource, it grants the same request
\* after one further ACP identifier is added to the acpi of the resource, also when
\* acpi was empty and the creator or custodian was granted.
C12_AccessMonotone ==
    (secCall.op = "hasAccess" /\ secCall.resource.mayAcpi /\ secCall.result) =>
        \A acpRi \in AcpIds : WithFurtherACP(secCall, acpRi)

\* the returns of hasAccess that come before line 376
EarlierReturns == {"disabled", "cseOriginator", "notify", "parameters", "type",
                   "announcement", "resourceType"}

\* the parent resource that the inherited check is made on
InheritedFrom(call) ==
    IF call.parentResource # NoParent THEN call.parentResource ELSE ParentP1

C14_WitnessParent ==
    /\ secCall.op = "hasAccess"
    /\ secCall.resource.inheritACP
    /\ secCall.stage = "parent"
    /\ secCall.result

\* C15: hasAccess returns true, before any ACP or type rule, (1) when the ACP checks
\* are disabled; else (2) when the originator is the CSE originator or the configured
\* full-access admin; else (3) when the permission is NOTIFY and the originator is the
\* CSE-ID of the CSE. An originator with the admin suffix is granted by (2) only when
\* full access for the admin is configured.
C15_ShortCircuits ==
    secCall.op = "hasAccess" =>
        LET o == secCall.originator
            disabled == ~secCall.cfg.enableACPChecks
            admin == \/ o = cseOriginator
                     \/ endswithSlashCseOriginator(o) /\ secCall.cfg.fullAccessAdmin
            notify == secCall.requestedPermission = NOTIFY /\ o = cseCsi
        IN  /\ disabled => secCall.result /\ secCall.stage = "disabled"
            /\ ~disabled /\ admin => secCall.result /\ secCall.stage = "cseOriginator"
            /\ ~disabled /\ ~admin /\ notify => secCall.result /\ secCall.stage = "notify"
            /\ (endswithSlashCseOriginator(o) /\ secCall.stage = "cseOriginator")
                    => secCall.cfg.fullAccessAdmin

C15_Witness ==
    /\ secCall.op = "hasAccess"
    /\ secCall.cfg.enableACPChecks
    /\ ~secCall.cfg.fullAccessAdmin
    /\ endswithSlashCseOriginator(secCall.originator)
    /\ secCall.stage = "acpi"
    /\ ~secCall.result

\* C16: checkAcpiUpdatePermission raises BAD_REQUEST for acpi together with another
\* attribute; for acpi alone it returns True iff the originator is the creator when
\* the target has no acpi, or has the pvs UPDATE self-permission of a referenced ACP
\* that can be retrieved when it has, and raises ORIGINATOR_HAS_NO_PRIVILEGE if not;
\* without acpi in the payload it returns False and raises nothing.
C16_AcpiUpdate ==
    secCall.op = "checkAcpiUpdatePermission" =>
        LET attrs == secCall.updatedAttributes
            target == secCall.targetResource
            o == getIdFromOriginator(secCall.originator)
            allowed ==
                IF target.acpi = <<>> THEN o = target.creator
                ELSE \E i \in 1..Len(target.acpi) :
                        /\ AcpRetrievable(target.acpi[i])
                        /\ checkACPSelfPermission(AcpTable[target.acpi[i]], o, UPDATE)
        IN  /\ ("acpi" \in attrs /\ attrs # {"acpi"}) => secCall.outcome = "BAD_REQUEST"
            /\ attrs = {"acpi"} =>
                    secCall.outcome = IF allowed THEN "True" ELSE "ORIGINATOR_HAS_NO_PRIVILEGE"
            /\ "acpi" \notin attrs => secCall.outcome = "False"

C16_Witness ==
    /\ secCall.op = "checkAcpiUpdatePermission"
    /\ secCall.updatedAttributes = {"acpi"}
    /\ secCall.targetResource.acpi = <<"acpGone", "acpAe">>
    /\ secCall.originator = "/id-in/Cae"
    /\ secCall.outcome = "True"

\* C18: removeSubscription sends a deletion notification to su, if set, and to every
\* URI in acrs, and removes the record, whichever of the notifications fail.
C18_DeletionNotifications ==
    deletion.done =>
        /\ deletion.su # None => deletion.su \in Range(deletion.notified)
        /\ Range(deletion.acrs) \subseteq Range(deletion.notified)
        /\ ~subTab.exists

\* C17: checkSubscriptions notifies a subscription only if the reason is in its net;
\* for the creation or deletion of a child only if chty is unset or holds the type of
\* the child; for an update and a subscription with atr only if a modified attribute
\* is in atr, so not when no attribute is modified.
C17_NotificationFilters ==
    nmCall.op = "checkSubscriptions" =>
        \A i \in 1..Len(nmCall.subs) :
            nmCall.notified[i] # "none" =>
                LET sub == nmCall.subs[i]
                IN  /\ nmCall.reason \in sub.net
                    /\ nmCall.reason \in ChildReasons =>
                            (sub.chty = {} \/ nmCall.childResource.ty \in sub.chty)
                    /\ (nmCall.reason = "resourceUpdate" /\ sub.atr # {}) =>
                            nmCall.modifiedAttributes \cap sub.atr # {}

\* the subscriptions checkPerformBlockingUpdate has to ask, and those that do not
\* answer OK
BlockingAsked(call) ==
    {i \in 1..Len(call.subs) :
        isBlockingUpdateSub(call.subs[i]) /\ ~atrSkips(call.subs[i], call.updatedAttributes)}

BlockingRefused(call) ==
    {i \in BlockingAsked(call) : ~(call.answers[i].status /\ call.answers[i].rsc = "OK")}

MappedRsc(rsc) ==
    CASE rsc = "TARGET_NOT_REACHABLE" -> "REMOTE_ENTITY_NOT_REACHABLE"
      [] rsc = "OPERATION_NOT_ALLOWED" -> "OPERATION_DENIED_BY_REMOTE_ENTITY"
      [] OTHER -> rsc

\* C19: checkPerformBlockingUpdate succeeds only if every blockingUpdate subscription
\* that is not skipped by its atr answered OK; the first answer that is not OK ends it
\* with a failed result, REMOTE_ENTITY_NOT_REACHABLE for TARGET_NOT_REACHABLE,
\* OPERATION_DENIED_BY_REMOTE_ENTITY for OPERATION_NOT_ALLOWED, the code of the
\* answer otherwise, and no later subscription is notified.
C19_BlockingUpdate ==
    nmCall.op = "checkPerformBlockingUpdate" =>
        LET refused == BlockingRefused(nmCall)
            asked == BlockingAsked(nmCall)
        IN  IF refused = {}
            THEN nmCall.result.status /\ Range(nmCall.result.notified) = asked
            ELSE LET first == CHOOSE i \in refused : \A j \in refused : i <= j
                 IN  /\ ~nmCall.result.status
                     /\ nmCall.result.rsc = MappedRsc(nmCall.answers[first].rsc)
                     /\ Range(nmCall.result.notified) = {i \in asked : i <= first}

\* C20: when an event is raised and one of its handlers raises an exception, every
\* other handler of the event is still called with the arguments of the event, and
\* the exception does not reach the code that raised the event.
C20_HandlerIsolation ==
    (evLog.raised /\ evLog.finished /\ ~evLog.changed) =>
        /\ \A h \in Range(evLog.atCall) : <<h, evLog.args>> \in Range(evLog.invoked)
        /\ ~evLog.propagated

\* C21: the handlers of a background event run each on a task of their own: a handler
\* that blocks does not hold back the start of the others, and the caller does not
\* wait. The handlers of a foreground event have all run, in the order of the list,
\* when the call returns.
C21_BackgroundHandlersIndependent ==
    /\ (evRun.active /\ evRun.background /\ evRun.blocked /\ ~evLog.changed) =>
            \A h \in Range(evLog.atCall) : <<h, evLog.args>> \in Range(evLog.invoked)
    /\ (evLog.raised /\ evLog.background) => evLog.returned
    /\ (evLog.raised /\ ~evLog.background /\ evLog.returned
                     /\ ~evLog.changed /\ ~evLog.propagated) =>
            evLog.invoked = [i \in 1..Len(evLog.atCall) |-> <<evLog.atCall[i], evLog.args>>]

\* Storage.retrieveResource, lines 124-133: more than one document found for the ri is
\* reported as rcInternalServerError, 'database inconsistency'
DatabaseInconsistency(ri) == Len(WithRi(tab["Resources"], ri)) > 1

\* C24: the ri is unique in the Resource table in every reachable state: two threads
\* creating a resource with the same ri insert at most one record, so that no
\* retrieveResource by ri finds more than one document (a database inconsistency).
\* Stated for the runs in which purgeDB has not been called.
C24_RiUnique ==
    NoPurgeYet => \A r \in Range(tab["Resources"]) : ~DatabaseInconsistency(r.ri)

\* the attributes that the last updateResource call passed as None
RemovedAttributes == {k \in DOMAIN docLog.json : docLog.json[k] = Null}

\* C22: after updateResource with a resource in which some attributes are None, the
\* stored record of that ri contains none of these attributes (neither None nor the
\* value it had), every other attribute of the update is stored with the update's
\* value, the attributes the update does not name are as they were, and a
\* retrieveResource of the ri that follows returns a resource without the removed
\* attributes; the resource handed back by the call has lost them as well.
C22_NullRemovesAttribute ==
    docLog.op = "updateResource" =>
        LET stored == DocsWithRi(docTab.Resources, docLog.ri)
            before == DocsWithRi(docLog.before, docLog.ri)
            fields == docLog.json
        IN  /\ Len(stored) = Len(before)
            /\ \A i \in 1..Len(stored) :
                /\ DOMAIN stored[i].json \cap RemovedAttributes = {}
                /\ \A k \in DOMAIN fields \ RemovedAttributes :
                        k \in DOMAIN stored[i].json /\ stored[i].json[k] = fields[k]
                /\ \A k \in DocAttributes \ DOMAIN fields :
                        /\ k \in DOMAIN stored[i].json <=> k \in DOMAIN before[i].json
                        /\ k \in DOMAIN stored[i].json => stored[i].json[k] = before[i].json[k]
            /\ \A r \in Range(doc_retrieveResource(docTab, docLog.ri, None).resource) :
                    DOMAIN r.json \cap RemovedAttributes = {}
            /\ before # <<>> => doc_retrieveResource(docTab, docLog.ri, None).rsc = "rcOK"
            /\ \A j \in Range(docLog.returned) : DOMAIN j \cap RemovedAttributes = {}

\* an update of a stored resource removed an attribute that was stored and set another
C22_Witness ==
    /\ docLog.op = "updateResource"
    /\ \E d \in Range(DocsWithRi(docLog.before, docLog.ri)) :
            RemovedAttributes \cap DOMAIN d.json # {}
    /\ DOMAIN docLog.json \ RemovedAttributes # {}

EtEarlier(d, now) == "et" \in DOMAIN d.json /\ d.json["et"] < now

ReferencedPeers(at) == {at[i].csi : i \in 1..Len(at)} \cap AnnPeers

\* the peers recorded in the __announcedTo__ list
RecordedPeers(ato) == {ato[i].csi : i \in 1..Len(ato)}

SentTo(op, csi) == [op |-> op, id |-> annLog.id, csi |-> csi] \in Range(annLog.sent)

\* C26: after every announce, de-announce and update-announcement operation, for
\* every entry (csi, remoteRI) of the resource's __announcedTo__ its at has an entry
\* that starts with csi + '/'. Stated for the states in which every peer has a <csr>
\* with a poa.
C26_AnnouncedToInAt ==
    (annLog.op # "none" /\ \A csi \in AnnPeers : annCsrs[csi] = "poa") =>
        \A i \in 1..Len(annRes["x"].ato) :
            \E j \in 1..Len(annRes["x"].at) :
                startswithCsiSlash(annRes["x"].at[j], annRes["x"].ato[i].csi)

\* C27: when a peer has registered or the monitor has ticked, the resource, if its at
\* references the peer and it was not recorded as announced to it (also when it was
\* recorded for no peer at all), has had a CREATE sent to the peer; if it was recorded
\* for the peer, no CREATE has been sent to it.
C27_NotAnnouncedGetsCreate ==
    annLog.op \in {"handleRemoteCSEHasRegistered", "announcementMonitorWorker"} =>
        \A csi \in annLog.csis :
            /\ (csi \in ReferencedPeers(annLog.before.at)
                    /\ csi \notin RecordedPeers(annLog.before.ato)) => SentTo("CREATE", csi)
            /\ csi \in RecordedPeers(annLog.before.ato) => ~SentTo("CREATE", csi)

\* C28: after announceUpdatedResource, for the peers with a <csr> that has a poa: a
\* recorded peer that the updated at no longer references has been sent a DELETE and
\* is not recorded any more, a recorded peer that is still referenced has been sent an
\* UPDATE, and a referenced peer that was not recorded has been sent a CREATE.
C28_UpdatePropagatesDelta ==
    annLog.op = "announceUpdatedResource" =>
        \A csi \in {p \in AnnPeers : annLog.csrs[p] = "poa"} :
            LET recorded == csi \in RecordedPeers(annLog.before.ato)
                referenced == csi \in ReferencedPeers(annLog.before.at)
            IN  /\ (recorded /\ ~referenced) =>
                        SentTo("DELETE", csi) /\ csi \notin RecordedPeers(annRes["x"].ato)
                /\ (recorded /\ referenced) => SentTo("UPDATE", csi)
                /\ (~recorded /\ referenced) => SentTo("CREATE", csi)

\* C29: a RETRIEVE of the <oldest> child returns an instance of the parent whose
\* creation time no other current instance undercuts, or NOT_FOUND when the parent
\* has no instance or does not exist; CREATE and UPDATE fail with
\* OPERATION_NOT_ALLOWED and change nothing.
C29_OldestChild ==
    /\ tsLog.op = "handleRetrieveRequest" =>
            IF tsRes.exists /\ tsRes.instances # <<>>
            THEN /\ tsLog.rsc = "OK"
                 /\ Len(tsLog.resource) = 1
                 /\ tsLog.resource[1] \in Range(tsRes.instances)
                 /\ \A x \in Range(tsRes.instances) : tsLog.resource[1].ct <= x.ct
            ELSE tsLog.rsc = "notFound" /\ tsLog.resource = <<>>
    /\ tsLog.op \in {"handleCreateRequest", "handleUpdateRequest"} =>
            /\ tsLog.rsc = "operationNotAllowed"
            /\ ~tsLog.changed
            /\ tsLog.before = tsRes.instances

\* <oldest> was retrieved while the <ts> had instances of different creation times
C29_Witness ==
    /\ tsLog.op = "handleRetrieveRequest"
    /\ tsLog.rsc = "OK"
    /\ \E x, y \in Range(tsRes.instances) : x.ct < y.ct

\* C30: after a <tsi> has been added, the <ts> has at most mni instances and their
\* content sizes sum up to at most mbs, for each limit that is set; the instances
\* removed are the oldest by creation time, as many as the limits require and no more;
\* cni and cbs are the number and the total content size of the instances that remain.
C30_LimitsAfterChildAdded ==
    tsLog.op = "childAdded" =>
        /\ tsRes.mni # NoLimit => Len(tsRes.instances) <= tsRes.mni
        /\ tsRes.mbs # NoLimit => contentSize(tsRes.instances) <= tsRes.mbs
        /\ sortedByCt(tsLog.before) = tsLog.removed \o sortedByCt(tsRes.instances)
        /\ \A r \in Range(tsLog.removed), x \in Range(tsRes.instances) : r.ct <= x.ct
        /\ tsLog.removed # <<>> =>
                LET last == tsLog.removed[Len(tsLog.removed)]
                IN  \/ tsRes.mni # NoLimit /\ Len(tsRes.instances) + 1 > tsRes.mni
                    \/ tsRes.mbs # NoLimit
                            /\ contentSize(tsRes.instances) + last.cs > tsRes.mbs
        /\ tsRes.cni = Len(tsRes.instances)
        /\ tsRes.cbs = contentSize(tsRes.instances)

\* an instance was added to a <ts> with both limits set; instances were removed for
\* the content size and others remain
C30_Witness ==
    /\ tsLog.op = "childAdded"
    /\ tsRes.mni # NoLimit /\ tsRes.mbs # NoLimit
    /\ tsLog.removed # <<>> /\ tsRes.instances # <<>>
    /\ Len(tsLog.before) <= tsRes.mni

\* C31: the DELETE of a <request> is refused with UNABLE_TO_RECALL_REQUEST, and nothing
\* is changed, when its request status is PENDING, FORWARDED or PARTIALLY_COMPLETED;
\* with any other status the hook does not refuse and the <request> is removed.
C31_RecallRefused ==
    reqLog.op = "delete" =>
        IF reqLog.rs \in {"PENDING", "FORWARDED", "PARTIALLY_COMPLETED"}
        THEN reqLog.rsc = "UNABLE_TO_RECALL_REQUEST" /\ reqRes = reqLog.before
        ELSE /\ reqLog.rsc = "deleted"
             /\ reqRes = [reqLog.before EXCEPT ![reqLog.ri] = NoReq]

\* the DELETE of a PARTIALLY_COMPLETED <request> was refused while another <request>
\* exists
C31_Witness ==
    /\ reqLog.op = "delete"
    /\ reqLog.rs = "PARTIALLY_COMPLETED"
    /\ reqLog.rsc = "UNABLE_TO_RECALL_REQUEST"
    /\ \E ri \in ReqIds \ {reqLog.ri} : reqRes[ri].exists

\* C32: the Resource table never holds a record of a virtual type, such as the <latest>
\* and <oldest> children of a <ts>; stated for the table right after the first <ts> was
\* created and activated: the activation has added no such record.
C32_VirtualNeverStored ==
    (vrLog.op = "createTS" /\ vrLog.rsc = "created" /\ vrLog.before = <<>>) =>
        \A i \in 1..Len(vrTab) : vrTab[i].ty \notin VirtualTypes

\* C33: a sliding <crs> has at most one window actor at any time: the first sur starts
\* one actor carrying [sur], the sur that arrive before it has fired are added to its
\* list and start no second actor.
C33_OneSlidingActor ==
    crsTwt = "SLIDING" =>
        /\ Len(crsPool) <= 1
        /\ \A i \in 1..Len(crsPool) : crsPool[i].data # <<>>

\* C34 as stated: on a tick of the periodic worker a notification is fired iff the
\* length of the list equals the number of constituent subscriptions.
C34_FiredIffLength ==
    (crsTwt = "PERIODIC" /\ crsClosed.closed) =>
        (crsClosed.fired = 1 <=> crsClosed.len = subCount)

\* C34, amended: on a tick of the periodic worker a notification is fired iff the length
\* of the list equals the number of constituent subscriptions and the <crs> can be
\* retrieved; the list is empty after the tick in either case; a sur that arrives while
\* no periodic worker runs starts none.
C34_PeriodicTick ==
    crsTwt = "PERIODIC" =>
        /\ crsClosed.closed =>
                /\ crsClosed.fired = 1 <=>
                        (crsClosed.len = subCount /\ crsClosed.retrievable)
                /\ crsClosed.cleared => crsClosed.after = <<>>
        /\ \A t \in ReqThreads : crsThread[t].pc # "start"

\* a tick of the periodic worker found a complete list for a <crs> that could not be
\* retrieved: nothing was fired and the list is empty
C34_Witness ==
    /\ crsTwt = "PERIODIC"
    /\ crsClosed.closed /\ crsClosed.cleared
    /\ crsClosed.len = subCount /\ ~crsClosed.retrievable
    /\ crsClosed.fired = 0 /\ crsClosed.after = <<>>

\* C35: no sur is lost at a window boundary: a sur that arrives while the window worker
\* fires is counted in the window that is evaluated or is part of the next window; the
\* list that is cleared holds no sur that was appended after the evaluation.
C35_NoSurLostAtBoundary ==
    (crsClosed.closed /\ crsClosed.cleared) => crsClosed.dropped = <<>>

\* C36: at most one batch guard worker exists per pair (ri, nu), also when the
\* notifications of the pair are stored by several threads at once; and while
\* notifications of a pair are pending, fewer than bn.num, and no thread is at work on
\* them, a guard worker of the pair is scheduled.
C36_OneGuardPerPair ==
    \A nu \in NtfNus :
        /\ guardPool[nu] <= 1
        /\ (/\ ntfRec.exists
            /\ pending[nu] # {}
            /\ (ntfCfg.bn.num = 0 \/ Cardinality(pending[nu]) < ntfCfg.bn.num)
            /\ \A h \in Handlers : hnd[h].pc = "idle"
            /\ ~agg.held) => guardPool[nu] = 1

\* C37: when removeSubscription returns, the guard worker of every nu of the
\* subscription has been stopped and its pending batch notifications have been flushed
\* before the record was removed: no batch guard worker and no pending batch
\* notification of the subscription remains.
C37_NothingLeftAfterRemove ==
    ntfLog.left.done =>
        \A nu \in Range(ntfCfg.nus) :
            ntfLog.left.guardPool[nu] = 0 /\ ntfLog.left.pending[nu] = {}

\* C38: _sendNotification over a list calls the sender for the URIs in list order and
\* stops at the first URI whose sender returns false, returning false; otherwise, also
\* for an empty list, it returns true; the expiration counter of the subscription is
\* decremented only when the sender succeeded for every notification URI.
C38_StopsAtFirstFailure ==
    sndCall.op = "handleSubscriptionNotification" =>
        LET n == Len(sndCall.called)
        IN  /\ n <= Len(sndCall.nus)
            /\ sndCall.called = SubSeq(sndCall.nus, 1, n)
            /\ \A i \in 1..(n - 1) : sndCall.called[i] \notin sndCall.failing
            /\ ~sndCall.result <=> (n >= 1 /\ sndCall.called[n] \in sndCall.failing)
            /\ sndCall.result => n = Len(sndCall.nus)
            /\ (sndCall.excAfter # sndCall.exc \/ sndCall.deleted) =>
                    \A i \in 1..Len(sndCall.nus) : sndCall.nus[i] \notin sndCall.failing

\* the sender failed for the first of two URIs: the second was not tried and the
\* expiration counter, which was set, is as before
C38_Witness ==
    /\ sndCall.op = "handleSubscriptionNotification"
    /\ Len(sndCall.nus) = 2 /\ Len(sndCall.called) = 1
    /\ sndCall.nus[2] \notin sndCall.failing
    /\ ~sndCall.result
    /\ sndCall.exc > 0 /\ sndCall.excAfter = sndCall.exc /\ ~sndCall.deleted

\* C39: for the creation or deletion of a direct child that is the subscription itself
\* no notification is produced for that subscription, while every other subscription of
\* the parent whose net holds the reason and whose chty admits the child is notified;
\* for an event on a virtual resource no notification is produced at all.
C39_NoOwnNotification ==
    nmCall.op = "checkSubscriptions" =>
        \A i \in 1..Len(nmCall.subs) :
            LET sub == nmCall.subs[i]
                child == nmCall.childResource
            IN  /\ nmCall.virtual => nmCall.notified[i] = "none"
                /\ (~nmCall.virtual /\ nmCall.reason \in ChildReasons) =>
                        IF sub.ri = child.ri THEN nmCall.notified[i] = "none"
                        ELSE (nmCall.reason \in sub.net
                                /\ (sub.chty = {} \/ child.ty \in sub.chty))
                                    => nmCall.notified[i] = "child"

\* a <sub> was created below a parent with two subscriptions for that event, one of
\* them the new <sub> itself: only the other one is notified
C39_Witness ==
    /\ nmCall.op = "checkSubscriptions"
    /\ ~nmCall.virtual
    /\ nmCall.reason = "createDirectChild"
    /\ nmCall.childResource.ty = "SUB"
    /\ Len(nmCall.subs) = 2
    /\ \A i \in 1..2 : nmCall.reason \in nmCall.subs[i].net /\ nmCall.subs[i].chty = {"SUB"}
    /\ \E i, j \in 1..2 :
        /\ nmCall.subs[i].ri = nmCall.childResource.ri /\ nmCall.notified[i] = "none"
        /\ nmCall.subs[j].ri # nmCall.childResource.ri /\ nmCall.notified[j] = "child"

\* C40: after updateAppData(d) has returned for a record d with an id, getAppData(d.id)
\* gives d, whether a record with that id was stored before or not and whatever other
\* records the table holds, and the records with other ids are as they were.
C40_TrueUpsert ==
    (appLog.op = "updateAppData" /\ "id" \in DOMAIN appLog.data) =>
        /\ searchAppData(appTab, appLog.data.id) = appLog.data
        /\ \A id \in AppIds \ {appLog.data.id} :
               WithId(appTab, id) = WithId(appLog.before, id)

====
